---- MODULE Spec2Model ----
(***************************************************************************)
(* A model of the judah ETL library: the windowed sources                  *)
(* (judah/sources/base), the database destination model's upsert           *)
(* (judah/destinations/database/model.py) and the controller's             *)
(* extract / transform / load stages (judah/controllers/base).             *)
(*                                                                         *)
(* Dates are day numbers.  An Optional value is a sequence: <<>> is None,  *)
(* <<d>> is a date, <<q, y>> is a (quarter, year) tuple.                   *)
(***************************************************************************)
EXTENDS Integers, Sequences, FiniteSets, TLC

VARIABLES
    \* ---- windowed source (sources/base/date_based.py, quarter_based.py)
    source_class,                   \* the class of the source instance
    start_date, end_date,           \* DateBasedBaseSource fields
    default_batch_size_in_days,
    start_quarter_and_year,         \* QuarterBasedBaseSource fields
    end_quarter_and_year,
    default_batch_size_in_quarters,
    today,                          \* date.today()
    current_quarter_and_year,       \* (get_current_quarter(), get_current_year())
    get_pc,                         \* position of the get() generator
    window,                         \* get()'s locals: the computed (start, end)
    prev_window,                    \* the (start, end) the previous get() computed
    clock_at_get,                   \* the clock value get() read
    entry,                          \* the instance's (start, end) fields when get() was called
    calls,                          \* arguments of _query_data_source in this get()
    delegate_out,                   \* records _query_data_source has produced in this get()
    yielded,                        \* records get() has yielded in this get()
    n_gets,                         \* number of get() calls so far
    \* ---- database destination model (destinations/database/model.py)
    table,                          \* the rows of the model's table
    upsert_data,                    \* the record given to the last upsert, <<>> before any
    upsert_outcome,                 \* how the last upsert ended
    lookup_attempted,               \* the last upsert entered the primary-key lookup
    last_upsert,                    \* per primary key: the record of its latest upsert
    all_with_key,                   \* every record upserted so far held every key column
    n_upserts,                      \* number of upsert calls so far
    \* ---- controller (controllers/base/__init__.py)
    interval_in_milliseconds,       \* BaseController.interval_in_milliseconds
    cron_jobs,                      \* BaseController.cron_jobs
    _interval,                      \* BaseController._interval
    _source,                        \* "unset" until _update_source builds the source
    should_wait_before_yielding,    \* extract()'s local
    extract_pc,                     \* position of the extract() generator
    extract_left_by,                \* the exception that ended extract(), or "none"
    n_cycles,                       \* iterations of extract()'s loop begun
    n_queries,                      \* calls of the source's get()
    cycle_wait,                     \* what the current iteration waited for before its query
    extract_out,                    \* records extract() yielded in the current iteration
    awaiting,                       \* the record extract() yielded that transform has not had
    stage_chain,                    \* transformer_classes at the last transform call
    stage,                          \* the stage the last step belongs to
    stage_in,                       \* the argument of the last transform / load call
    stage_items,                    \* the items the last transform / load call yielded
    raised,                         \* the exception raised inside the stage in the last step
    propagated,                     \* the exception that left the stage in the last step
    logged,                         \* logging.error messages of the last step
    notified,                       \* ExceptionNotifier notifications of the last step
    pending,                        \* items of the last transform not yet given to load
    upsert_calls,                   \* arguments of upsert since the last transform
    \* ---- date-based REST API source (sources/rest_api/date_based.py)
    rest_pc,                        \* position of the _query_data_source generator
    default_headers,                \* DateBasedRestAPISource.default_headers
    authenticate_adds,              \* the headers the source's _authenticate adds
    requests_log,                   \* headers of each requests.get of this call, in order
    n_authenticate,                 \* _authenticate calls of this call
    first_response,                 \* the response of the first GET of this call
    response,                       \* _query_data_source's local `response`
    rest_yielded,                   \* records this call has yielded
    rest_raised,                    \* (status_code, message) of the RequestError raised
    \* ---- cron schedule (utils/cron.py)
    cron_given,                     \* the fields the CronType was constructed with
    cron_fields,                    \* the fields of the CronType instance
    utc_now,                        \* datetime.now(tz=pytz.UTC), frozen during the call
    cron_pc,                        \* position in get_next_utc_timestamp
    generated_timestamp,            \* get_next_utc_timestamp's local
    next_utc_timestamp,             \* get_next_utc_timestamp's local next_timestamp
    cron_returned,                  \* the value get_next_utc_timestamp returned
    cron_raised,                    \* the exception that left get_next_utc_timestamp
    \* ---- utils/dates.py called alone
    given_quarter_year_tuple,       \* the quarter_year_tuple argument
    given_increment,                \* the quarters_to_increment_by argument
    given_decrement,                \* the quarters_to_decrement_by argument
    updated_quarter_year_tuple,     \* what update_quarter_year_tuple returned
    \* ---- export-site sources (sources/export_site)
    export_class,                   \* the class of the source
    chrome,                         \* the source's chrome field
    site_indices,                   \* the number of files the site lists
    number_of_indices,              \* IndexBasedExportSiteSource.number_of_indices
    seconds_between_downloads,      \* IndexBasedExportSiteSource.seconds_between_downloads
    export_pc,                      \* position of the _query_data_source generator
    n_pulls,                        \* _query_data_source calls on this instance
    current_option_index,           \* _query_data_source's local
    download_log,                   \* current_option_index of each _download_file call of this pull
    known_after_download,           \* per download: number_of_indices was set right after it
    files_produced,                 \* what each _download_file call of this pull returned
    export_yielded,                 \* records this pull has yielded
    pauses,                         \* seconds the pull was held after each download but the last
    n_chrome_created,               \* get_web_driver calls
    n_quits,                        \* chrome.quit() calls
    destroyed,                      \* __del__ has run
    del_raised,                     \* the exception raised in __del__
    file_parent,                    \* the folder _download_file leaves its files in
    download_folder_exists,         \* the folder at download_folder_path is on disk
    folder_at_download,             \* per _download_file call of this pull: that folder existed
    \* ---- database connections (destinations/database/connection.py)
    connections,                    \* DatabaseConnection.connections: db_uri -> connection object
    connection_objects,             \* the DatabaseConnection objects constructed, with their fields
    returned_for,                   \* per db_uri: objects get_db_connection returned since its removal
    engines_of,                     \* per db_uri: objects (engines) made since its removal
    scoped_sessions,                \* the scoped_session objects made, with each thread's Session
    user_thread,                    \* the thread each user of a connection runs in
    user_pc,                        \* where each user is with its `with` block
    user_connection,                \* the connection object each user's `with` acquired
    user_session,                   \* each user's local `session`
    replaced_while_open,            \* a later __enter__ replaced db_session during the user's scope
    release_log,                    \* the calls __exit__ made for each user
    scopes_open,                    \* the users inside a `with` block, in order of entry
    \* ---- BaseController._wait_for_interval_to_elapse (controllers/base/__init__.py)
    class_interval,                 \* cls._interval, in ms
    closest_next_timestamp,         \* what _get_closest_next_timestamp returns, ms after start_time_in_utc
    wait_pc,                        \* position of the call
    interval,                       \* the call's local `interval`
    time_used_up_so_far,            \* the call's local, in ms
    sleeps_left,                    \* iterations of the loop still to run
    sleeps_done,                    \* time.sleep(1) calls made
    elapsed,                        \* ms since start_time_in_utc
    \* ---- class-level state of Controller classes (controllers/base)
    controller_kind,                \* the library base of the classes: date-based or quarter-based
    class_dict,                     \* each class's own attributes
    class_sources,                  \* the source objects built, in order
    acting,                         \* the class the last call was made on
    called,                         \* the last call and its inputs
    n_class_calls,                  \* calls made so far
    n_queries_of,                   \* _query_source calls per class
    \* ---- the transformer library (transformers/*.py)
    transformer_class,              \* the transformer class: its name and class attributes
    given_record,                   \* the record r
    run_pc,                         \* how often run was applied
    first_run,                      \* T.run(r): what it returned or raised
    second_run                      \* T.run(T.run(r))

source_vars == <<source_class, start_date, end_date, default_batch_size_in_days,
                 start_quarter_and_year, end_quarter_and_year,
                 default_batch_size_in_quarters, today, current_quarter_and_year,
                 get_pc, window, prev_window, clock_at_get, entry, calls,
                 delegate_out, yielded, n_gets>>

upsert_vars == <<table, upsert_data, upsert_outcome, lookup_attempted, last_upsert,
                 all_with_key, n_upserts>>

controller_vars == <<interval_in_milliseconds, cron_jobs, _interval,
                     _source, should_wait_before_yielding, extract_pc, extract_left_by,
                     n_cycles, n_queries, cycle_wait, extract_out, awaiting, stage_chain,
                     stage, stage_in, stage_items,
                     raised, propagated, logged, notified, pending, upsert_calls>>

rest_vars == <<rest_pc, default_headers, authenticate_adds, requests_log, n_authenticate,
               first_response, response, rest_yielded, rest_raised>>

cron_vars == <<cron_given, cron_fields, utc_now, cron_pc, generated_timestamp,
               next_utc_timestamp, cron_returned, cron_raised>>

dates_vars == <<given_quarter_year_tuple, given_increment, given_decrement, updated_quarter_year_tuple>>

export_vars == <<export_class, chrome, site_indices, number_of_indices, seconds_between_downloads, export_pc, n_pulls, current_option_index, download_log, known_after_download, files_produced, export_yielded, pauses, n_chrome_created, n_quits, destroyed, del_raised, file_parent, download_folder_exists, folder_at_download>>

conn_vars == <<connections, connection_objects, returned_for, engines_of, scoped_sessions, user_thread, user_pc, user_connection, user_session, replaced_while_open, release_log, scopes_open>>

wait_vars == <<class_interval, closest_next_timestamp, wait_pc, interval, time_used_up_so_far, sleeps_left, sleeps_done, elapsed>>

classes_vars == <<controller_kind, class_dict, class_sources, acting, called, n_class_calls, n_queries_of>>

transformers_vars == <<transformer_class, given_record, run_pc, first_run, second_run>>

vars == <<source_vars, upsert_vars, controller_vars, rest_vars, cron_vars, dates_vars, export_vars, conn_vars, wait_vars, classes_vars, transformers_vars>>

\* what the operations of one component leave alone
outside_source == <<upsert_vars, controller_vars, rest_vars, cron_vars, dates_vars, export_vars, conn_vars, wait_vars, classes_vars, transformers_vars>>
outside_upsert == <<source_vars, controller_vars, rest_vars, cron_vars, dates_vars, export_vars, conn_vars, wait_vars, classes_vars, transformers_vars>>
outside_controller == <<source_vars, upsert_vars, rest_vars, cron_vars, dates_vars, export_vars, conn_vars, wait_vars, classes_vars, transformers_vars>>
outside_rest == <<source_vars, upsert_vars, controller_vars, cron_vars, dates_vars, export_vars, conn_vars, wait_vars, classes_vars, transformers_vars>>
outside_cron == <<source_vars, upsert_vars, controller_vars, rest_vars, dates_vars, export_vars, conn_vars, wait_vars, classes_vars, transformers_vars>>
outside_dates == <<source_vars, upsert_vars, controller_vars, rest_vars, cron_vars, export_vars, conn_vars, wait_vars, classes_vars, transformers_vars>>
outside_export == <<source_vars, upsert_vars, controller_vars, rest_vars, cron_vars, dates_vars, conn_vars, wait_vars, classes_vars, transformers_vars>>
outside_conn == <<source_vars, upsert_vars, controller_vars, rest_vars, cron_vars, dates_vars, export_vars, wait_vars, classes_vars, transformers_vars>>
outside_wait == <<source_vars, upsert_vars, controller_vars, rest_vars, cron_vars, dates_vars, export_vars, conn_vars, classes_vars, transformers_vars>>
outside_classes == <<source_vars, upsert_vars, controller_vars, rest_vars, cron_vars, dates_vars, export_vars, conn_vars, wait_vars, transformers_vars>>
outside_transformers == <<source_vars, upsert_vars, controller_vars, rest_vars, cron_vars, dates_vars, export_vars, conn_vars, wait_vars, classes_vars>>

\* ------------------------------------------------------------------ bounds
MaxDate == 3          \* configured dates are 0..MaxDate
MaxToday == 2         \* the clock runs from day 0 to MaxToday
MaxBatch == 2         \* batch sizes are -1..MaxBatch
MaxGets == 3          \* get() calls per instance
MaxRecs == 2          \* records one pull produces
MaxQuarterTicks == 2  \* quarters the clock advances
BaseYear == 2019      \* first configured year
MaxQuarterDelta == 5  \* quarters added or taken away in one call
MaxIndices == 3       \* files an export site lists
MaxPulls == 2         \* pulls of one export-site source
MaxConnections == 2   \* DatabaseConnection objects constructed
Records == {"r1", "r2"}

None == <<>>
Dates == 0..MaxDate
OptDates == {None} \cup {<<d>> : d \in Dates}
BatchSizes == (-1)..MaxBatch
Years == BaseYear..(BaseYear + 1)
QuarterYears == {<<q, y>> : q \in 1..4, y \in Years}
OptQuarterYears == {None} \cup QuarterYears

\* isinstance(x, date) / isinstance(x, tuple)
IsDate(x) == Len(x) = 1
IsTuple(x) == Len(x) = 2

\* ------------------------------------------------------- utils/dates.py
\* mutant: the increment and the decrement are exchanged
update_date_exchanged(date_to_update, days_to_increment_by, days_to_decrement_by) ==
    date_to_update - days_to_increment_by + days_to_decrement_by

update_date(date_to_update, days_to_increment_by, days_to_decrement_by) ==
    date_to_update + days_to_increment_by - days_to_decrement_by

\* int(a / b): Python's true division followed by truncation toward zero
IntOfQuotient(a, b) == IF a >= 0 THEN a \div b ELSE -((-a) \div b)

update_quarter_year_tuple(quarter_year_tuple, quarters_to_increment_by, quarters_to_decrement_by) ==
    LET quarter == quarter_year_tuple[1]
        year == quarter_year_tuple[2]
        net_quarters_delta == quarters_to_increment_by - quarters_to_decrement_by
        number_of_quarters_per_year == 4
        total == (quarter - 1) + ((year - 1) * number_of_quarters_per_year)
        new_total == total + net_quarters_delta
        updated_year == 1 + IntOfQuotient(new_total, number_of_quarters_per_year)
        updated_quarter == 1 + (new_total % number_of_quarters_per_year)
    IN  <<updated_quarter, updated_year>>

\* ------------------------------------------- sources/base/date_based.py
\* mutant: without an end_date the window ends today, start_date or not
_get_next_end_date_from_today(days_to_increment_by, days_to_decrement_by) ==
    IF IsDate(end_date)
    THEN update_date(end_date[1], days_to_increment_by, days_to_decrement_by)
    ELSE update_date(today, days_to_increment_by, days_to_decrement_by)

_get_next_end_date(days_to_increment_by, days_to_decrement_by) ==
    IF IsDate(end_date)
    THEN update_date(end_date[1], days_to_increment_by, days_to_decrement_by)
    ELSE IF IsDate(start_date)
         THEN update_date(start_date[1],
                          default_batch_size_in_days + days_to_increment_by,
                          days_to_decrement_by)
         ELSE update_date(today, days_to_increment_by, days_to_decrement_by)

\* mutant: the increment is dropped when start_date is set
_get_next_start_date_drops_increment(days_to_increment_by, days_to_decrement_by) ==
    IF IsDate(start_date)
    THEN update_date(start_date[1], 0, days_to_decrement_by)
    ELSE update_date(IF IsDate(end_date) THEN end_date[1] ELSE today,
                     days_to_increment_by,
                     default_batch_size_in_days + days_to_decrement_by)

_get_next_start_date(days_to_increment_by, days_to_decrement_by) ==
    IF IsDate(start_date)
    THEN update_date(start_date[1], days_to_increment_by, days_to_decrement_by)
    ELSE update_date(IF IsDate(end_date) THEN end_date[1] ELSE today,
                     days_to_increment_by,
                     default_batch_size_in_days + days_to_decrement_by)

\* mutant: the comparison is turned around
DateWindowIsEmpty_turned(start, end) == start < end

\* get(): `if end_date < start_date: yield from []`
DateWindowIsEmpty(start, end) == end < start

\* ---------------------------------------- sources/base/quarter_based.py
_get_next_end_quarter_and_year(quarters_to_increment_by, quarters_to_decrement_by) ==
    LET end == IF IsTuple(end_quarter_and_year)
               THEN end_quarter_and_year
               ELSE IF IsTuple(start_quarter_and_year)
                    THEN update_quarter_year_tuple(start_quarter_and_year,
                                                   default_batch_size_in_quarters, 0)
                    ELSE current_quarter_and_year
    IN  update_quarter_year_tuple(end, quarters_to_increment_by, quarters_to_decrement_by)

_get_next_start_quarter_and_year(quarters_to_increment_by, quarters_to_decrement_by) ==
    LET start == IF IsTuple(start_quarter_and_year)
                 THEN start_quarter_and_year
                 ELSE IF IsTuple(end_quarter_and_year)
                      THEN update_quarter_year_tuple(end_quarter_and_year, 0,
                                                     default_batch_size_in_quarters)
                      ELSE update_quarter_year_tuple(current_quarter_and_year, 0,
                                                     default_batch_size_in_quarters)
    IN  update_quarter_year_tuple(start, quarters_to_increment_by, quarters_to_decrement_by)

\* get(): `if end_year < start_year ... elif end_quarter < start_quarter and end_year <= start_year`
QuarterWindowIsEmpty(start, end) ==
    \/ end[2] < start[2]
    \/ (end[1] < start[1] /\ end[2] <= start[2])

\* ---------------------------------------------------------- the source
IsDateSource == source_class = "DateBasedBaseSource"
IsQuarterSource == source_class = "QuarterBasedBaseSource"
GetNotRunning == get_pc \in {"idle", "done", "raised", "closed"}

SourceInit ==
    /\ source_class \in {"DateBasedBaseSource", "QuarterBasedBaseSource"}
    /\ IF IsDateSource
       THEN /\ start_date \in OptDates
            /\ end_date \in OptDates
            /\ default_batch_size_in_days \in BatchSizes
            /\ start_quarter_and_year = None
            /\ end_quarter_and_year = None
            /\ default_batch_size_in_quarters = 1
       ELSE /\ start_date = None
            /\ end_date = None
            /\ default_batch_size_in_days = 7
            /\ start_quarter_and_year \in OptQuarterYears
            /\ end_quarter_and_year \in OptQuarterYears
            /\ default_batch_size_in_quarters \in BatchSizes
    /\ today = 0
    /\ current_quarter_and_year = <<4, BaseYear>>
    /\ get_pc = "idle"
    /\ window = <<>>
    /\ prev_window = <<>>
    /\ clock_at_get = <<>>
    /\ entry = <<>>
    /\ calls = <<>>
    /\ delegate_out = <<>>
    /\ yielded = <<>>
    /\ n_gets = 0

\* DateBasedBaseSource.get() up to the call of _query_data_source
DateGet ==
    /\ IsDateSource
    /\ GetNotRunning
    /\ n_gets < MaxGets
    /\ LET start == _get_next_start_date(0, 0)
           end == _get_next_end_date(0, 0)
       IN  /\ window' = <<start, end>>
           /\ IF DateWindowIsEmpty(start, end)
              THEN /\ get_pc' = "done"
                   /\ calls' = <<>>
              ELSE /\ get_pc' = "querying"
                   /\ calls' = << <<start, end>> >>
    /\ prev_window' = window
    /\ clock_at_get' = <<today>>
    /\ entry' = <<start_date, end_date>>
    /\ delegate_out' = <<>>
    /\ yielded' = <<>>
    /\ n_gets' = n_gets + 1
    /\ UNCHANGED <<source_class, start_date, end_date, default_batch_size_in_days,
                   start_quarter_and_year, end_quarter_and_year,
                   default_batch_size_in_quarters, today, current_quarter_and_year>>
    /\ UNCHANGED outside_source

\* QuarterBasedBaseSource.get() up to the call of _query_data_source
QuarterGet ==
    /\ IsQuarterSource
    /\ GetNotRunning
    /\ n_gets < MaxGets
    /\ LET start == _get_next_start_quarter_and_year(0, 0)
           end == _get_next_end_quarter_and_year(0, 0)
       IN  /\ window' = <<start, end>>
           /\ IF QuarterWindowIsEmpty(start, end)
              THEN /\ get_pc' = "done"
                   /\ calls' = <<>>
              ELSE /\ get_pc' = "querying"
                   /\ calls' = << <<start, end>> >>
    /\ prev_window' = window
    /\ clock_at_get' = current_quarter_and_year
    /\ entry' = <<start_quarter_and_year, end_quarter_and_year>>
    /\ delegate_out' = <<>>
    /\ yielded' = <<>>
    /\ n_gets' = n_gets + 1
    /\ UNCHANGED <<source_class, start_date, end_date, default_batch_size_in_days,
                   start_quarter_and_year, end_quarter_and_year,
                   default_batch_size_in_quarters, today, current_quarter_and_year>>
    /\ UNCHANGED outside_source

\* `yield from self._query_data_source(...)`: the delegate produces a record
\* and get() passes it on
YieldedAfter(record) == Append(yielded, record)

DelegateYields ==
    /\ get_pc = "querying"
    /\ Len(delegate_out) < MaxRecs
    /\ \E record \in Records :
          /\ delegate_out' = Append(delegate_out, record)
          /\ yielded' = YieldedAfter(record)
    /\ UNCHANGED <<source_class, start_date, end_date, default_batch_size_in_days,
                   start_quarter_and_year, end_quarter_and_year,
                   default_batch_size_in_quarters, today, current_quarter_and_year,
                   get_pc, window, prev_window, clock_at_get, entry, calls, n_gets>>
    /\ UNCHANGED outside_source

\* mutant: the start bound is advanced also when the pull is cut short
\* (the assignment placed in a `finally`)
FieldsAfterAbort_advances ==
    /\ IF source_class = "DateBasedBaseSource"
       THEN /\ start_date' = <<_get_next_start_date(default_batch_size_in_days, 0)>>
            /\ UNCHANGED start_quarter_and_year
       ELSE /\ start_quarter_and_year' =
                   _get_next_start_quarter_and_year(default_batch_size_in_quarters, 0)
            /\ UNCHANGED start_date
    /\ UNCHANGED <<end_date, end_quarter_and_year>>

\* the fields a get() leaves behind when it ends before its delegate is
\* exhausted: nothing after the `yield from` has run
FieldsAfterAbort ==
    UNCHANGED <<start_date, end_date, start_quarter_and_year, end_quarter_and_year>>

\* _query_data_source raises: the exception leaves get() at the `yield from`
DelegateRaises ==
    /\ get_pc = "querying"
    /\ get_pc' = "raised"
    /\ FieldsAfterAbort
    /\ UNCHANGED <<source_class, default_batch_size_in_days,
                   default_batch_size_in_quarters, today, current_quarter_and_year,
                   window, prev_window, clock_at_get, entry, calls,
                   delegate_out, yielded, n_gets>>
    /\ UNCHANGED outside_source

\* the consumer stops iterating: the generator is closed where it is suspended
ConsumerStops ==
    /\ get_pc = "querying"
    /\ Len(yielded) >= 1
    /\ get_pc' = "closed"
    /\ FieldsAfterAbort
    /\ UNCHANGED <<source_class, default_batch_size_in_days,
                   default_batch_size_in_quarters, today, current_quarter_and_year,
                   window, prev_window, clock_at_get, entry, calls,
                   delegate_out, yielded, n_gets>>
    /\ UNCHANGED outside_source

\* the delegate is exhausted: DateBasedBaseSource.get() advances start_date
DateGetCompletes ==
    /\ IsDateSource
    /\ get_pc = "querying"
    /\ start_date' = <<_get_next_start_date(default_batch_size_in_days, 0)>>
    /\ get_pc' = "done"
    /\ UNCHANGED <<source_class, end_date, default_batch_size_in_days,
                   start_quarter_and_year, end_quarter_and_year,
                   default_batch_size_in_quarters, today, current_quarter_and_year,
                   window, prev_window, clock_at_get, entry, calls,
                   delegate_out, yielded, n_gets>>
    /\ UNCHANGED outside_source

\* the delegate is exhausted: QuarterBasedBaseSource.get() advances its start
QuarterGetCompletes ==
    /\ IsQuarterSource
    /\ get_pc = "querying"
    /\ start_quarter_and_year' =
           _get_next_start_quarter_and_year(default_batch_size_in_quarters, 0)
    /\ get_pc' = "done"
    /\ UNCHANGED <<source_class, start_date, end_date, default_batch_size_in_days,
                   end_quarter_and_year,
                   default_batch_size_in_quarters, today, current_quarter_and_year,
                   window, prev_window, clock_at_get, entry, calls,
                   delegate_out, yielded, n_gets>>
    /\ UNCHANGED outside_source

\* the system clock moves forward by a day (date source) or a quarter
ClockTicks ==
    /\ IF IsDateSource
       THEN /\ today < MaxToday
            /\ today' = today + 1
            /\ UNCHANGED current_quarter_and_year
       ELSE /\ current_quarter_and_year[1] + 4 * (current_quarter_and_year[2] - BaseYear)
                  < 4 + MaxQuarterTicks
            /\ current_quarter_and_year' =
                   update_quarter_year_tuple(current_quarter_and_year, 1, 0)
            /\ UNCHANGED today
    /\ UNCHANGED <<source_class, start_date, end_date, default_batch_size_in_days,
                   start_quarter_and_year, end_quarter_and_year,
                   default_batch_size_in_quarters,
                   get_pc, window, prev_window, clock_at_get, entry, calls,
                   delegate_out, yielded, n_gets>>
    /\ UNCHANGED outside_source


\* ------------------------------------------------- the destination model
\* the model of the tests: Date and number are the primary key
Columns == {"Date", "number", "Capacity", "Price"}
primary_key_columns == {"Date", "number"}
NonKeyColumns == Columns \ primary_key_columns
ColumnValues == [Date |-> {"d1", "d2"}, number |-> {"n1", "n2"},
                 Capacity |-> {"c1", "c2"}, Price |-> {"p1"}]
AllValues == UNION {ColumnValues[column] : column \in Columns}
NULL == "NULL"
MaxUpserts == 3

\* the records (dicts) upsert is given: any subset of the columns
DataRecords ==
    UNION {{data \in [columns -> AllValues] :
                \A column \in columns : data[column] \in ColumnValues[column]} :
           columns \in SUBSET Columns}
Keys == {key \in [primary_key_columns -> AllValues] :
             \A column \in primary_key_columns : key[column] \in ColumnValues[column]}
KeyOf(row) == [column \in primary_key_columns |-> row[column]]
HasEveryKeyColumn(data) == \A column \in primary_key_columns : column \in DOMAIN data

\* `any([column.key in data for column in primary_key_columns])`
is_data_with_primary_key(data) ==
    \E column \in primary_key_columns : column \in DOMAIN data

\* `session.query(cls).filter(and_(column == data[column.key] ...)).first()`
MatchingRows(data) ==
    {row \in table : \A column \in primary_key_columns : row[column] = data[column]}

\* mutant: update saves the row without setting the attributes
RowAfterUpdate_unset(row, data) == row

\* record.update(session, **data): set every attribute of data, then save
RowAfterUpdate(row, data) ==
    [column \in Columns |-> IF column \in DOMAIN data THEN data[column] ELSE row[column]]

\* cls(**data): the columns the record lacks are NULL
NewRow(data) ==
    [column \in Columns |-> IF column \in DOMAIN data THEN data[column] ELSE NULL]

UpsertInit ==
    /\ table = {}
    /\ upsert_data = <<>>
    /\ upsert_outcome = "none"
    /\ lookup_attempted = FALSE
    /\ last_upsert = [key \in Keys |-> <<>>]
    /\ all_with_key = TRUE
    /\ n_upserts = 0

\* SlimDatabaseBaseModel.upsert(data), the commit of the scope included
Upsert ==
    /\ n_upserts < MaxUpserts
    /\ \E data \in DataRecords :
          /\ upsert_data' = data
          /\ lookup_attempted' = is_data_with_primary_key(data)
          /\ all_with_key' = (all_with_key /\ HasEveryKeyColumn(data))
          /\ last_upsert' = IF HasEveryKeyColumn(data)
                            THEN [last_upsert EXCEPT ![KeyOf(data)] = data]
                            ELSE last_upsert
          /\ IF is_data_with_primary_key(data) /\ ~HasEveryKeyColumn(data)
             THEN \* data[column.key] raises KeyError while the filter is built
                  /\ upsert_outcome' = "KeyError"
                  /\ table' = table
             ELSE IF is_data_with_primary_key(data) /\ MatchingRows(data) # {}
             THEN \E record \in MatchingRows(data) :
                     /\ table' = (table \ {record}) \cup {RowAfterUpdate(record, data)}
                     /\ upsert_outcome' = "updated"
             ELSE \* record = cls(**data); record.save(session)
                  IF \/ ~HasEveryKeyColumn(data)
                     \/ \E row \in table : KeyOf(row) = KeyOf(NewRow(data))
                  THEN \* the database refuses a NULL or a duplicate primary key
                       /\ upsert_outcome' = "IntegrityError"
                       /\ table' = table
                  ELSE /\ table' = table \cup {NewRow(data)}
                       /\ upsert_outcome' = "inserted"
    /\ n_upserts' = n_upserts + 1
    /\ UNCHANGED outside_upsert

UpsertNext ==
    \/ Upsert

\* --------------------------------------------------------- the controller
MaxCycles == 3        \* iterations of extract()'s loop
MaxChain == 2         \* transformers in transformer_classes

\* the exception classes the stages meet, each with the classes it derives from
ExceptionBases ==
    [TestingTimeoutError |-> {"TestingTimeoutError", "Exception", "BaseException"},
     ProtocolError       |-> {"ProtocolError", "HTTPError", "Exception", "BaseException"},
     WebDriverException  |-> {"WebDriverException", "Exception", "BaseException"},
     OSError             |-> {"OSError", "Exception", "BaseException"},
     ConnectionError     |-> {"ConnectionError", "OSError", "Exception", "BaseException"},
     ValueError          |-> {"ValueError", "Exception", "BaseException"},
     TypeError           |-> {"TypeError", "Exception", "BaseException"},
     KeyError            |-> {"KeyError", "LookupError", "Exception", "BaseException"},
     AttributeError      |-> {"AttributeError", "Exception", "BaseException"},
     RequestError        |-> {"RequestError", "BaseException"}]

_known_extraction_exceptions == {"ProtocolError", "WebDriverException", "OSError", "ConnectionError"}
_known_transformation_exceptions == {"OSError"}
_known_loading_exceptions == {"OSError"}
_fatal_extraction_exceptions == {"TestingTimeoutError"}
_fatal_transformation_exceptions == {"TestingTimeoutError"}
_fatal_loading_exceptions == {"TestingTimeoutError"}

\* what a source's get(), the construction of the source and upsert may raise
SourceExceptions == {"TestingTimeoutError", "ProtocolError", "WebDriverException", "OSError",
                     "ConnectionError", "ValueError", "RequestError"}
ConstructionExceptions == {"TestingTimeoutError", "OSError", "ValueError"}
UpsertExceptions == {"TestingTimeoutError", "OSError", "KeyError"}

\* isinstance(exp, classes), as an except clause tests it
IsInstance(exp, classes) == ExceptionBases[exp] \cap classes # {}

\* mutant: the stage has no clause for its fatal exceptions
ExceptClause_without_fatal(exp, fatal_exceptions, known_exceptions) ==
    IF IsInstance(exp, known_exceptions) THEN "known"
    ELSE IF IsInstance(exp, {"Exception"}) THEN "unknown"
    ELSE "uncaught"

\* the except clause an exception reaches: fatal, known, `except Exception`, or none
ExceptClause(exp, fatal_exceptions, known_exceptions) ==
    IF IsInstance(exp, fatal_exceptions) THEN "fatal"
    ELSE IF IsInstance(exp, known_exceptions) THEN "known"
    ELSE IF IsInstance(exp, {"Exception"}) THEN "unknown"
    ELSE "uncaught"

\* f'[Unknown] {cls._source.name} <Stage>'
Subject(stage_name) == <<"[Unknown]", "source name", stage_name>>

\* the except clauses of a stage, run on an exception raised in its try block:
\* what leaves the stage, what is logged, what is notified
Handled(exp, fatal_exceptions, known_exceptions, stage_name, source) ==
    LET clause == ExceptClause(exp, fatal_exceptions, known_exceptions)
    IN  IF clause \in {"fatal", "uncaught"}
        THEN [clause |-> clause, propagated |-> exp, logged |-> <<>>, notified |-> <<>>]
        ELSE IF source = "unset"
        THEN \* cls._source.name raises AttributeError inside the except clause
             [clause |-> clause, propagated |-> "AttributeError",
              logged |-> <<>>, notified |-> <<>>]
        ELSE IF clause = "known"
        THEN [clause |-> clause, propagated |-> "none",
              logged |-> << <<stage_name, exp>> >>, notified |-> <<>>]
        ELSE [clause |-> clause, propagated |-> "none", logged |-> <<>>,
              notified |-> << [subject |-> Subject(stage_name), exception |-> exp] >>]

\* ---- transformers: classes with a run(data) classmethod
TransformerClasses == {"BaseTransformer", "Tag", "Split", "RaisesOSError",
                       "RaisesValueError", "RaisesTimeout"}

Value(data) == [exc |-> "none", is_list |-> FALSE, v |-> data]
ListValue(list) == [exc |-> "none", is_list |-> TRUE, v |-> list]
Raise(exp) == [exc |-> exp, is_list |-> FALSE, v |-> None]

\* transformer.run(data=datum)
Run(transformer, datum) ==
    CASE transformer = "BaseTransformer" -> Value(datum)
      [] transformer = "Tag" ->
            IF datum = None THEN Raise("TypeError") ELSE Value(Append(datum, "T"))
      [] transformer = "Split" ->
            IF datum = None THEN Raise("TypeError")
            ELSE ListValue(<<Append(datum, "a"), Append(datum, "b")>>)
      [] transformer = "RaisesOSError" -> Raise("OSError")
      [] transformer = "RaisesValueError" -> Raise("ValueError")
      [] transformer = "RaisesTimeout" -> Raise("TestingTimeoutError")

\* mutant: a list a transformer returns for an element is appended as one item
SpreadInto_appended(list_output, data_from_current_transformer) ==
    Append(list_output, data_from_current_transformer.v)

\* transform(): a returned list is spread into list_output, an item appended
SpreadInto(list_output, data_from_current_transformer) ==
    IF data_from_current_transformer.is_list
    THEN list_output \o data_from_current_transformer.v
    ELSE Append(list_output, data_from_current_transformer.v)

\* transform(): `for datum in transformed_data`, from element index on
RECURSIVE RunOnList(_, _, _, _)
RunOnList(transformer, list, index, list_output) ==
    IF index > Len(list) THEN ListValue(list_output)
    ELSE LET data_from_current_transformer == Run(transformer, list[index])
         IN  IF data_from_current_transformer.exc # "none"
             THEN data_from_current_transformer
             ELSE RunOnList(transformer, list, index + 1,
                            SpreadInto(list_output, data_from_current_transformer))

\* transform(): `for transformer in cls.transformer_classes`, from position index on
RECURSIVE RunChain(_, _, _)
RunChain(chain, index, transformed_data) ==
    IF index > Len(chain) \/ transformed_data.exc # "none" THEN transformed_data
    ELSE RunChain(chain, index + 1,
                  IF transformed_data.is_list
                  THEN RunOnList(chain[index], transformed_data.v, 1, <<>>)
                  ELSE Run(chain[index], transformed_data.v))

\* transform(): `yield None` of the known-exception clause
KnownTransformationPlaceholder == <<None>>

\* transform(data), consumed to its end
TransformOutcome(data, chain, source) ==
    LET placeholder == IF data = None THEN <<None>> ELSE <<>>
        result == RunChain(chain, 1, Value(data))
        handled == Handled(result.exc, _fatal_transformation_exceptions,
                           _known_transformation_exceptions, "Transformation", source)
    IN  IF result.exc = "none"
        THEN [items |-> placeholder \o (IF result.is_list THEN result.v ELSE <<result.v>>),
              raised |-> "none", propagated |-> "none", logged |-> <<>>, notified |-> <<>>]
        ELSE [items |-> placeholder \o
                        (IF handled.clause = "known" /\ handled.propagated = "none"
                         THEN KnownTransformationPlaceholder ELSE <<>>),
              raised |-> result.exc, propagated |-> handled.propagated,
              logged |-> handled.logged, notified |-> handled.notified]

\* load(data), consumed to its end, upsert having returned or raised upsert_result
LoadOutcome(data, upsert_result, source) ==
    LET placeholder == IF data = None THEN <<None>> ELSE <<>>
        handled == Handled(upsert_result, _fatal_loading_exceptions,
                           _known_loading_exceptions, "Loading", source)
    IN  IF upsert_result = "none"
        THEN [items |-> Append(placeholder, data),
              raised |-> "none", propagated |-> "none", logged |-> <<>>, notified |-> <<>>]
        ELSE [items |-> placeholder \o
                        (IF handled.clause = "known" /\ handled.propagated = "none"
                         THEN <<None>> ELSE <<>>),
              raised |-> upsert_result, propagated |-> handled.propagated,
              logged |-> handled.logged, notified |-> handled.notified]

\* what destination_model_class.upsert(data) does with the record: it returns
\* ("none") or raises; `column.key in data` raises TypeError when data is None
UpsertResults(data) ==
    IF data = None THEN {"TypeError"} ELSE {"none"} \cup UpsertExceptions

RECURSIVE SeqsUpTo(_, _)
SeqsUpTo(set, length) ==
    IF length = 0 THEN {<<>>}
    ELSE LET shorter == SeqsUpTo(set, length - 1)
         IN  shorter \cup {Append(seq, x) : seq \in shorter, x \in set}

Chains == SeqsUpTo(TransformerClasses, MaxChain)
SourceRecords == {<<record>> : record \in Records}

\* cron schedules by what get_next_utc_timestamp() returns for them: one
\* that recurs has a next timestamp, one anchored to a past year has None
CronJobs == {"CronType(second=30)", "CronType(year=2018)"}
CronJobLists == {<<>>} \cup {<<cron_job>> : cron_job \in CronJobs}
                      \cup {<<"CronType(year=2018)", "CronType(second=30)">>}

get_next_utc_timestamp(cron_job) ==
    IF cron_job = "CronType(year=2018)" THEN None ELSE <<"next minute, second 30">>

\* the earliest of the schedules' next timestamps, None when there is none
_get_closest_next_timestamp ==
    LET timestamps_without_nones ==
            SelectSeq([i \in 1..Len(cron_jobs) |-> get_next_utc_timestamp(cron_jobs[i])],
                      LAMBDA timestamp : timestamp # None)
    IN  IF timestamps_without_nones = <<>> THEN None ELSE timestamps_without_nones[1]

\* mutant: with no cron timestamp the call returns at once, interval or not
_wait_for_interval_to_elapse_for_cron_only ==
    IF _get_closest_next_timestamp = None THEN "returned_at_once" ELSE "until_cron_timestamp"

\* _wait_for_interval_to_elapse: what the call waits for
_wait_for_interval_to_elapse ==
    LET next_timestamp == _get_closest_next_timestamp
    IN  IF _interval = None /\ next_timestamp = None THEN "returned_at_once"
        ELSE IF next_timestamp # None THEN "until_cron_timestamp"
        ELSE "for_the_interval"

\* mutant: the break does not look at cron_jobs
BreaksAfterPull_without_cron_jobs == _interval = None

\* extract(): `if cls._interval is None and len(cls.cron_jobs) == 0: break`
BreaksAfterPull == _interval = None /\ Len(cron_jobs) = 0

ControllerInit ==
    /\ interval_in_milliseconds \in {None, <<2000>>}
    /\ cron_jobs \in CronJobLists
    /\ awaiting = None
    /\ stage_chain = <<>>
    /\ _interval = None
    /\ _source = "unset"
    /\ should_wait_before_yielding = FALSE
    /\ extract_pc = "not_started"
    /\ extract_left_by = "none"
    /\ n_cycles = 0
    /\ n_queries = 0
    /\ cycle_wait = "not_called"
    /\ extract_out = <<>>
    /\ stage = "none"
    /\ stage_in = None
    /\ stage_items = <<>>
    /\ raised = "none"
    /\ propagated = "none"
    /\ logged = <<>>
    /\ notified = <<>>
    /\ pending = <<>>
    /\ upsert_calls = <<>>

\* stages run in extract, transform, load order, one record at a time: the
\* consumer asks extract() for more once the last record is through
ConsumerPulls == awaiting = None /\ pending = <<>>

\* a step of extract() in which no exception is raised
ExtractStepsQuietly ==
    /\ stage' = "extract"
    /\ raised' = "none"
    /\ propagated' = "none"
    /\ logged' = <<>>
    /\ notified' = <<>>
    /\ stage_chain' = <<>>
    /\ stage_in' = None
    /\ stage_items' = <<>>
    /\ upsert_calls' = <<>>
    /\ UNCHANGED <<pending, extract_left_by, interval_in_milliseconds, cron_jobs>>
    /\ UNCHANGED outside_controller

\* extract()'s except clauses on an exception raised in the try block of the loop
ExtractHandles(exp) ==
    LET handled == Handled(exp, _fatal_extraction_exceptions,
                           _known_extraction_exceptions, "Extraction", _source)
    IN  /\ stage' = "extract"
        /\ raised' = exp
        /\ propagated' = handled.propagated
        /\ logged' = handled.logged
        /\ notified' = handled.notified
        /\ extract_pc' = IF handled.propagated = "none" THEN "loop" ELSE "raised"
        /\ extract_left_by' = handled.propagated
        /\ stage_chain' = <<>>
        /\ stage_in' = None
        /\ stage_items' = <<>>
        /\ upsert_calls' = <<>>
        /\ UNCHANGED <<pending, awaiting, interval_in_milliseconds, cron_jobs, _interval,
                       should_wait_before_yielding>>
        /\ UNCHANGED outside_controller

\* extract(): cls._initialize() and the line before the loop
ExtractStarts ==
    /\ extract_pc = "not_started"
    /\ ConsumerPulls
    /\ _interval' = IF interval_in_milliseconds # None
                    THEN interval_in_milliseconds ELSE _interval
    /\ should_wait_before_yielding' = (Len(cron_jobs) > 0)
    /\ extract_pc' = "loop"
    /\ UNCHANGED <<_source, n_cycles, n_queries, cycle_wait, extract_out, awaiting>>
    /\ ExtractStepsQuietly

\* one iteration up to the source's get(): start_time, the wait, _query_source()
ExtractQueriesSource ==
    /\ extract_pc = "loop"
    /\ ConsumerPulls
    /\ n_cycles < MaxCycles
    /\ n_cycles' = n_cycles + 1
    /\ cycle_wait' = IF should_wait_before_yielding
                     THEN _wait_for_interval_to_elapse ELSE "not_called"
    /\ extract_out' = <<>>
    /\ _source' = "built"
    /\ n_queries' = n_queries + 1
    /\ extract_pc' = "pulling"
    /\ UNCHANGED <<_interval, should_wait_before_yielding, awaiting>>
    /\ ExtractStepsQuietly

\* one iteration in which _update_source() raises while it builds the source
SourceConstructionRaises ==
    /\ extract_pc = "loop"
    /\ ConsumerPulls
    /\ n_cycles < MaxCycles
    /\ _source = "unset"
    /\ n_cycles' = n_cycles + 1
    /\ cycle_wait' = IF should_wait_before_yielding
                     THEN _wait_for_interval_to_elapse ELSE "not_called"
    /\ extract_out' = <<>>
    /\ UNCHANGED <<_source, n_queries>>
    /\ \E exp \in ConstructionExceptions : ExtractHandles(exp)

\* `yield from cls._query_source()`: the source yields a record
SourceYields ==
    /\ extract_pc = "pulling"
    /\ ConsumerPulls
    /\ Len(extract_out) < MaxRecs
    /\ \E record \in SourceRecords :
          /\ extract_out' = Append(extract_out, record)
          /\ awaiting' = record
    /\ UNCHANGED <<_interval, _source, should_wait_before_yielding, extract_pc,
                   n_cycles, n_queries, cycle_wait>>
    /\ ExtractStepsQuietly

\* the source's get() is exhausted: break, or go round the loop
SourceExhausted ==
    /\ extract_pc = "pulling"
    /\ ConsumerPulls
    /\ IF BreaksAfterPull
       THEN /\ extract_pc' = "done"
            /\ UNCHANGED should_wait_before_yielding
       ELSE /\ extract_pc' = "loop"
            /\ should_wait_before_yielding' = TRUE
    /\ UNCHANGED <<_interval, _source, n_cycles, n_queries, cycle_wait, extract_out,
                   awaiting>>
    /\ ExtractStepsQuietly

\* the source's get() raises
SourceRaises ==
    /\ extract_pc = "pulling"
    /\ ConsumerPulls
    /\ UNCHANGED <<_source, n_cycles, n_queries, cycle_wait, extract_out>>
    /\ \E exp \in SourceExceptions : ExtractHandles(exp)

\* the effects of one transform(data) call with transformer_classes = chain
TransformCall(data, chain) ==
    LET outcome == TransformOutcome(data, chain, _source)
    IN  /\ stage' = "transform"
        /\ stage_chain' = chain
        /\ stage_in' = data
        /\ stage_items' = outcome.items
        /\ raised' = outcome.raised
        /\ propagated' = outcome.propagated
        /\ logged' = outcome.logged
        /\ notified' = outcome.notified
        /\ pending' = outcome.items
        /\ upsert_calls' = <<>>
        /\ awaiting' = None
        /\ UNCHANGED <<interval_in_milliseconds, cron_jobs, _interval, _source,
                       should_wait_before_yielding, extract_pc, extract_left_by,
                       n_cycles, n_queries, cycle_wait, extract_out>>
        /\ UNCHANGED outside_controller

\* transform(data) on the record extract() has just yielded, consumed to its end
Transform ==
    /\ awaiting # None
    /\ \E chain \in Chains : TransformCall(awaiting, chain)

\* transform(data) called on its own, once, before extract() has started or
\* after it has ended
TransformAlone ==
    /\ extract_pc \in {"not_started", "done", "raised"}
    /\ stage \in {"none", "extract"}
    /\ ConsumerPulls
    /\ \E data \in {None} \cup SourceRecords, chain \in Chains : TransformCall(data, chain)

\* load(data) on the next item of transform, consumed to its end
Load ==
    /\ pending # <<>>
    /\ LET data == Head(pending)
       IN  \E upsert_result \in UpsertResults(data) :
              LET outcome == LoadOutcome(data, upsert_result, _source)
              IN  /\ stage_in' = data
                  /\ stage_items' = outcome.items
                  /\ raised' = outcome.raised
                  /\ propagated' = outcome.propagated
                  /\ logged' = outcome.logged
                  /\ notified' = outcome.notified
                  /\ upsert_calls' = Append(upsert_calls, data)
    /\ pending' = Tail(pending)
    /\ stage' = "load"
    /\ UNCHANGED <<interval_in_milliseconds, cron_jobs, _interval, stage_chain, awaiting,
                   _source, should_wait_before_yielding, extract_pc, extract_left_by,
                   n_cycles, n_queries, cycle_wait, extract_out>>
    /\ UNCHANGED outside_controller

ControllerNext ==
    \/ ExtractStarts
    \/ ExtractQueriesSource
    \/ SourceConstructionRaises
    \/ SourceYields
    \/ SourceExhausted
    \/ SourceRaises
    \/ Transform
    \/ TransformAlone
    \/ Load

\* ------------------------------------------ the date-based REST API source
StatusCodes == {200, 304, 400, 401, 403, 404, 500}
ResponseTexts == {"text1", "text2"}

\* response.json(): a dict (one record) or a list of records
JsonDicts == {[is_dict |-> TRUE, v |-> <<record>>] : record \in Records}
JsonLists == {[is_dict |-> FALSE, v |-> list] :
                 list \in UNION {[1..n -> Records] : n \in 0..MaxRecs}}
Responses == [status_code : StatusCodes, text : ResponseTexts, json : JsonDicts \cup JsonLists]

\* requests.Response.ok: the status is no client or server error
ResponseOk(r) == r.status_code < 400

\* mutant: a 403 is not a reason to authenticate
ReauthenticationStatusCodes_without_403 == {401, 400}

\* _query_data_source: `response.status_code in (401, 403, 400,)`
ReauthenticationStatusCodes == {401, 403, 400}

\* _query_data_source: the else branch of `if response.ok`
RestRaisesOn(r) == ~ResponseOk(r)

\* _extract_list_from_response, response_data_key being None
_extract_list_from_response(r) == r.json.v

\* _get_headers(): a copy of default_headers
_get_headers == default_headers

RestInit ==
    /\ rest_pc = "idle"
    /\ default_headers \in {{}, {"Accept"}}
    /\ authenticate_adds \in {{}, {"Authorization"}}
    /\ requests_log = <<>>
    /\ n_authenticate = 0
    /\ first_response = None
    /\ response = None
    /\ rest_yielded = <<>>
    /\ rest_raised = None

\* _query_data_source is called and run to the first requests.get
RestQueryUrl ==
    /\ rest_pc = "idle"
    /\ requests_log' = <<_get_headers>>
    /\ \E r \in Responses : response' = <<r>> /\ first_response' = <<r>>
    /\ n_authenticate' = 0
    /\ rest_yielded' = <<>>
    /\ rest_raised' = None
    /\ rest_pc' = "queried"
    /\ UNCHANGED <<default_headers, authenticate_adds>>
    /\ UNCHANGED outside_rest

\* the first status asks for authentication: _authenticate(), then a second GET
RestAuthenticatesAndQueriesAgain ==
    /\ rest_pc = "queried"
    /\ response[1].status_code \in ReauthenticationStatusCodes
    /\ n_authenticate' = n_authenticate + 1
    /\ default_headers' = default_headers \cup authenticate_adds
    /\ requests_log' = Append(requests_log, default_headers')
    /\ \E r \in Responses : response' = <<r>>
    /\ rest_pc' = "decided"
    /\ UNCHANGED <<authenticate_adds, first_response, rest_yielded, rest_raised>>
    /\ UNCHANGED outside_rest

\* no authentication is asked for: on to `if response.ok`
RestSkipsAuthentication ==
    /\ rest_pc = "queried"
    /\ response[1].status_code \notin ReauthenticationStatusCodes
    /\ rest_pc' = "decided"
    /\ UNCHANGED <<default_headers, authenticate_adds, requests_log, n_authenticate,
                   first_response, response, rest_yielded, rest_raised>>
    /\ UNCHANGED outside_rest

\* `yield from self._extract_list_from_response(response)`, consumed to its end
RestYields ==
    /\ rest_pc = "decided"
    /\ ~RestRaisesOn(response[1])
    /\ rest_yielded' = _extract_list_from_response(response[1])
    /\ rest_pc' = "done"
    /\ UNCHANGED <<default_headers, authenticate_adds, requests_log, n_authenticate,
                   first_response, response, rest_raised>>
    /\ UNCHANGED outside_rest

\* `raise RequestError(message=response.text, status_code=response.status_code)`
RestRaises ==
    /\ rest_pc = "decided"
    /\ RestRaisesOn(response[1])
    /\ rest_raised' = <<response[1].status_code, response[1].text>>
    /\ rest_pc' = "raised"
    /\ UNCHANGED <<default_headers, authenticate_adds, requests_log, n_authenticate,
                   first_response, response, rest_yielded>>
    /\ UNCHANGED outside_rest

RestNext ==
    \/ RestQueryUrl
    \/ RestAuthenticatesAndQueriesAgain
    \/ RestSkipsAuthentication
    \/ RestYields
    \/ RestRaises

RestIdle ==
    /\ rest_pc = "idle"
    /\ default_headers = {}
    /\ authenticate_adds = {}
    /\ requests_log = <<>>
    /\ n_authenticate = 0
    /\ first_response = None
    /\ response = None
    /\ rest_yielded = <<>>
    /\ rest_raised = None

\* -------------------------------------------------- the cron schedule
\* A datetime is a record [year, month, day, hour, minute, second,
\* microsecond]; a date is its first three fields.  The timezone is UTC and
\* date.today() is the date of utc_now.

IsLeapYear(year) == (year % 4 = 0 /\ year % 100 # 0) \/ year % 400 = 0

DaysInMonth(year, month) ==
    IF month = 2 THEN (IF IsLeapYear(year) THEN 29 ELSE 28)
    ELSE IF month \in {4, 6, 9, 11} THEN 30 ELSE 31

\* date(year, month, day) and datetime.replace raise ValueError on other values
IsValidDate(year, month, day) ==
    /\ month \in 1..12
    /\ day \in 1..DaysInMonth(year, month)

DatetimeFields == <<"year", "month", "day", "hour", "minute", "second", "microsecond">>

\* a < b on datetimes, from field index on
RECURSIVE EarlierFrom(_, _, _)
EarlierFrom(a, b, index) ==
    IF index > Len(DatetimeFields) THEN FALSE
    ELSE LET field == DatetimeFields[index]
         IN  IF a[field] # b[field] THEN a[field] < b[field]
             ELSE EarlierFrom(a, b, index + 1)

Earlier(a, b) == EarlierFrom(a, b, 1)

\* days from 1 January 2019, a Tuesday, to the date
RECURSIVE DaysBeforeYear(_)
DaysBeforeYear(year) ==
    IF year <= 2019 THEN 0
    ELSE DaysBeforeYear(year - 1) + (IF IsLeapYear(year - 1) THEN 366 ELSE 365)

RECURSIVE DaysBeforeMonth(_, _)
DaysBeforeMonth(year, month) ==
    IF month <= 1 THEN 0
    ELSE DaysBeforeMonth(year, month - 1) + DaysInMonth(year, month - 1)

\* date.weekday(): Monday is 0
Weekday(d) == (1 + DaysBeforeYear(d.year) + DaysBeforeMonth(d.year, d.month) + d.day - 1) % 7

NextDay(d) ==
    IF d.day < DaysInMonth(d.year, d.month) THEN [d EXCEPT !.day = d.day + 1]
    ELSE IF d.month < 12 THEN [d EXCEPT !.day = 1, !.month = d.month + 1]
    ELSE [d EXCEPT !.day = 1, !.month = 1, !.year = d.year + 1]

\* d + timedelta(days=n)
RECURSIVE PlusDays(_, _)
PlusDays(d, n) == IF n = 0 THEN d ELSE PlusDays(NextDay(d), n - 1)

\* d + timedelta(hours=1)
PlusHour(d) ==
    IF d.hour < 23 THEN [d EXCEPT !.hour = d.hour + 1]
    ELSE NextDay([d EXCEPT !.hour = 0])

\* d + timedelta(minutes=1)
PlusMinute(d) ==
    IF d.minute < 59 THEN [d EXCEPT !.minute = d.minute + 1]
    ELSE PlusHour([d EXCEPT !.minute = 0])

\* what a call returns or raises
Returns(value) == [exception |-> "none", value |-> value]
Raises(exception) == [exception |-> exception, value |-> None]

\* datetime.replace(year=..., month=...)
Replace(d, year, month) ==
    IF IsValidDate(year, month, d.day)
    THEN Returns(<<[d EXCEPT !.year = year, !.month = month]>>)
    ELSE Raises("ValueError")

\* utils/dates.py: add_month_to_datetime_but_maintain_day
add_month_to_datetime_but_maintain_day(datetime_value) ==
    LET replaced == Replace(datetime_value, datetime_value.year, datetime_value.month + 1)
    IN  IF replaced.exception = "none" THEN replaced
        ELSE IF datetime_value.month = 12
        THEN Replace(datetime_value, datetime_value.year + 1, 1)
        ELSE Returns(None)

\* the values of the fields of a CronType and of the clock
CronFieldValues ==
    [day_of_week : {None, <<0>>},
     year        : {None, <<2019>>, <<2021>>},
     month       : {None, <<2>>},
     day         : {None, <<29>>, <<31>>},
     hour        : {None, <<8>>},
     minute      : {None, <<46>>},
     second      : {None, <<30>>, <<45>>}]

Instants ==
    {now \in [year : {2019, 2020}, month : {1, 2, 3, 4, 12}, day : {15, 28, 29, 30, 31},
              hour : {8, 23}, minute : {46, 59}, second : {30, 59}, microsecond : {0, 1}] :
        IsValidDate(now.year, now.month, now.day)}

\* mutant: a given minute does not default the second
_generate_field_defaults_minute_alone(fields) ==
    LET any_coarser == \E field \in {"day_of_week", "year", "month", "day", "hour"} :
                           fields[field] # None
    IN  [fields EXCEPT !.month = IF fields.year # None /\ @ = None THEN <<1>> ELSE @,
                       !.day = IF (fields.year # None \/ fields.month # None) /\ @ = None
                               THEN <<1>> ELSE @,
                       !.hour = IF any_coarser /\ fields.hour = None /\ @ = None
                                THEN <<0>> ELSE @,
                       !.minute = IF any_coarser /\ @ = None THEN <<0>> ELSE @,
                       !.second = IF any_coarser /\ @ = None THEN <<0>> ELSE @]

\* _generate_field_defaults
_generate_field_defaults(fields) ==
    LET defaults == fields
        any_date_field == \E field \in {"day_of_week", "year", "month", "day"} :
                              defaults[field] # None
        month_after_year == IF defaults.year # None THEN defaults.month = None ELSE FALSE
        day_after_year == IF defaults.year # None THEN defaults.day = None ELSE FALSE
        should_set_month == month_after_year
        should_set_day == IF defaults.month # None THEN defaults.day = None ELSE day_after_year
        should_set_hour == IF any_date_field THEN defaults.hour = None ELSE FALSE
        minute_after_date == IF any_date_field THEN defaults.minute = None ELSE FALSE
        second_after_date == IF any_date_field THEN defaults.second = None ELSE FALSE
        minute_after_hour == IF fields.hour # None THEN defaults.minute = None
                             ELSE minute_after_date
        second_after_hour == IF fields.hour # None THEN defaults.second = None
                             ELSE second_after_date
        should_set_minute == minute_after_hour
        should_set_second == IF fields.minute # None THEN defaults.second = None
                             ELSE second_after_hour
    IN  [day_of_week |-> defaults.day_of_week,
         year   |-> defaults.year,
         month  |-> IF should_set_month THEN <<1>> ELSE defaults.month,
         day    |-> IF should_set_day THEN <<1>> ELSE defaults.day,
         hour   |-> IF should_set_hour THEN <<0>> ELSE defaults.hour,
         minute |-> IF should_set_minute THEN <<0>> ELSE defaults.minute,
         second |-> IF should_set_second THEN <<0>> ELSE defaults.second]

\* _get_next_date_from_day_of_week
_get_next_date_from_day_of_week(fields, date_today) ==
    IF fields.day_of_week = None THEN None
    ELSE LET number_of_days_ahead == fields.day_of_week[1] - Weekday(date_today)
         IN  <<PlusDays(date_today, IF number_of_days_ahead < 0
                               THEN number_of_days_ahead + 7 ELSE number_of_days_ahead)>>

\* _get_date: None, a date, or ValueError from date(**date_options)
_get_date(fields, date_today) ==
    LET next_date_for_day_of_week == _get_next_date_from_day_of_week(fields, date_today)
        year == IF fields.year # None THEN fields.year[1] ELSE date_today.year
        month == IF fields.month # None THEN fields.month[1] ELSE date_today.month
        day == IF fields.day # None THEN fields.day[1] ELSE date_today.day
    IN  IF next_date_for_day_of_week # None THEN Returns(next_date_for_day_of_week)
        ELSE IF fields.day = None /\ fields.year = None /\ fields.month = None
        THEN Returns(None)
        ELSE IF IsValidDate(year, month, day)
        THEN Returns(<<[date_today EXCEPT !.year = year, !.month = month, !.day = day]>>)
        ELSE Raises("ValueError")

\* _get_time: None or the (hour, minute, second) of the schedule
_get_time(fields, now) ==
    IF fields.minute = None /\ fields.second = None /\ fields.hour = None THEN None
    ELSE << [hour   |-> IF fields.hour # None THEN fields.hour[1] ELSE now.hour,
             minute |-> IF fields.minute # None THEN fields.minute[1] ELSE now.minute,
             second |-> IF fields.second # None THEN fields.second[1] ELSE now.second] >>

\* __get_timestamp_from_fields, the fields having their defaults
__get_timestamp_from_fields(fields, default_timestamp) ==
    LET next_date == _get_date(fields, default_timestamp)
        next_time == _get_time(fields, default_timestamp)
        on_date == IF next_date.value # None
                   THEN [default_timestamp EXCEPT !.year = next_date.value[1].year,
                                                  !.month = next_date.value[1].month,
                                                  !.day = next_date.value[1].day]
                   ELSE default_timestamp
        at_time == IF next_time # None
                   THEN [on_date EXCEPT !.hour = next_time[1].hour,
                                        !.minute = next_time[1].minute,
                                        !.second = next_time[1].second]
                   ELSE on_date
    IN  IF next_date.exception # "none" THEN next_date
        ELSE Returns(<<[at_time EXCEPT !.microsecond = 0]>>)

\* __get_next_timestamp
__get_next_timestamp(fields, current_timestamp) ==
    IF fields.year # None THEN Returns(<<current_timestamp>>)
    ELSE IF fields.day_of_week # None THEN Returns(<<PlusDays(current_timestamp, 7)>>)
    ELSE IF fields.month # None
    THEN Replace(current_timestamp, current_timestamp.year + 1, current_timestamp.month)
    ELSE IF fields.day # None THEN add_month_to_datetime_but_maintain_day(current_timestamp)
    ELSE IF fields.hour # None THEN Returns(<<PlusDays(current_timestamp, 1)>>)
    ELSE IF fields.minute # None THEN Returns(<<PlusHour(current_timestamp)>>)
    ELSE IF fields.second # None THEN Returns(<<PlusMinute(current_timestamp)>>)
    ELSE Returns(<<current_timestamp>>)

\* mutant: a timestamp equal to now does not stand
NotBefore_strictly_after(timestamp, now) == Earlier(now, timestamp)

\* get_next_utc_timestamp: `timestamp >= utc_now`
NotBefore(timestamp, now) == ~Earlier(timestamp, now)

CronInit ==
    /\ cron_given \in CronFieldValues
    /\ cron_fields = cron_given
    /\ utc_now \in Instants
    /\ cron_pc = "constructed"
    /\ generated_timestamp = None
    /\ next_utc_timestamp = None
    /\ cron_returned = None
    /\ cron_raised = "none"

\* get_next_utc_timestamp up to the end of __update_fields_with_defaults
CronUpdatesFieldsWithDefaults ==
    /\ cron_pc = "constructed"
    /\ cron_fields' = _generate_field_defaults(cron_fields)
    /\ cron_pc' = "defaulted"
    /\ UNCHANGED <<cron_given, utc_now, generated_timestamp, next_utc_timestamp,
                   cron_returned, cron_raised>>
    /\ UNCHANGED outside_cron

\* the rest of __get_timestamp_from_fields: the timestamp, or a ValueError
CronGeneratesTimestamp ==
    /\ cron_pc = "defaulted"
    /\ LET generated == __get_timestamp_from_fields(cron_fields, utc_now)
       IN  IF generated.exception = "none"
           THEN /\ generated_timestamp' = generated.value
                /\ cron_pc' = "generated"
                /\ UNCHANGED cron_raised
           ELSE /\ cron_raised' = generated.exception
                /\ cron_pc' = "raised"
                /\ UNCHANGED generated_timestamp
    /\ UNCHANGED <<cron_given, cron_fields, utc_now, next_utc_timestamp, cron_returned>>
    /\ UNCHANGED outside_cron

\* the generated timestamp is not before now: it is returned
CronReturnsGenerated ==
    /\ cron_pc = "generated"
    /\ NotBefore(generated_timestamp[1], utc_now)
    /\ next_utc_timestamp' = generated_timestamp
    /\ cron_returned' = generated_timestamp
    /\ cron_pc' = "returned"
    /\ UNCHANGED <<cron_given, cron_fields, utc_now, generated_timestamp, cron_raised>>
    /\ UNCHANGED outside_cron

\* the generated timestamp is before now: __get_next_timestamp and the return line
CronReturnsNext ==
    /\ cron_pc = "generated"
    /\ ~NotBefore(generated_timestamp[1], utc_now)
    /\ LET next == __get_next_timestamp(cron_fields, generated_timestamp[1])
       IN  IF next.exception # "none"
           THEN /\ cron_raised' = next.exception
                /\ cron_pc' = "raised"
                /\ UNCHANGED <<next_utc_timestamp, cron_returned>>
           ELSE IF next.value = None
           THEN \* `None >= utc_now`
                /\ cron_raised' = "TypeError"
                /\ cron_pc' = "raised"
                /\ next_utc_timestamp' = None
                /\ UNCHANGED cron_returned
           ELSE /\ next_utc_timestamp' = next.value
                /\ cron_returned' = IF NotBefore(next.value[1], utc_now)
                                    THEN next.value ELSE None
                /\ cron_pc' = "returned"
                /\ UNCHANGED cron_raised
    /\ UNCHANGED <<cron_given, cron_fields, utc_now, generated_timestamp>>
    /\ UNCHANGED outside_cron

CronNext ==
    \/ CronUpdatesFieldsWithDefaults
    \/ CronGeneratesTimestamp
    \/ CronReturnsGenerated
    \/ CronReturnsNext

CronIdle ==
    /\ cron_given = [day_of_week |-> None, year |-> None, month |-> None, day |-> None,
                     hour |-> None, minute |-> None, second |-> None]
    /\ cron_fields = cron_given
    /\ utc_now = [year |-> 2019, month |-> 1, day |-> 15, hour |-> 8, minute |-> 46,
                  second |-> 30, microsecond |-> 0]
    /\ cron_pc = "constructed"
    /\ generated_timestamp = None
    /\ next_utc_timestamp = None
    /\ cron_returned = None
    /\ cron_raised = "none"

\* -------------------------------------------------- utils/dates.py, called alone
GivenYears == {0, 1, 2, 2019, 2020}

DatesInit ==
    /\ given_quarter_year_tuple \in (1..4) \X GivenYears
    /\ given_increment \in 0..MaxQuarterDelta
    /\ given_decrement \in 0..MaxQuarterDelta
    /\ updated_quarter_year_tuple = None

\* update_quarter_year_tuple(quarter_year_tuple, increment, decrement) is called
DatesUpdateQuarterYearTuple ==
    /\ updated_quarter_year_tuple = None
    /\ updated_quarter_year_tuple' =
           <<update_quarter_year_tuple(given_quarter_year_tuple, given_increment,
                                       given_decrement)>>
    /\ UNCHANGED <<given_quarter_year_tuple, given_increment, given_decrement>>
    /\ UNCHANGED outside_dates

DatesNext == DatesUpdateQuarterYearTuple

DatesIdle ==
    /\ given_quarter_year_tuple = <<1, 2019>>
    /\ given_increment = 0
    /\ given_decrement = 0
    /\ updated_quarter_year_tuple = None

\* -------------------------------------------------- the export-site sources
ExportSiteClasses ==
    {"ExportSiteSource", "DateBasedExportSiteSource", "IndexBasedExportSiteSource"}

IsIndexBased == export_class = "IndexBasedExportSiteSource"

\* what _download_file can return for an index: no file, or a file of rows
FilesAt(index) ==
    {None,
     <<[file |-> index, row |-> 1]>>,
     <<[file |-> index, row |-> 1], [file |-> index, row |-> 2]>>}

\* what _download_file can leave in number_of_indices: the overridden method
\* stores the number of files the site lists, or leaves the field alone
NumberOfIndicesAfterDownload == {number_of_indices, <<site_indices>>}

\* asyncio.sleep(delay) called as a plain statement: a coroutine object is
\* made and dropped, nothing awaits it
asyncio_sleep(delay) == [delay |-> delay, awaited |-> FALSE]

\* the seconds the caller is held by a coroutine
SecondsPaused(coroutine) == IF coroutine.awaited THEN coroutine.delay ELSE 0

\* mutant: the field is read before the download instead of after it
NumberOfIndicesIsUnknown_before_download(value) == number_of_indices = None

\* `if self.number_of_indices is None`
NumberOfIndicesIsUnknown(value) == value = None

\* mutant: the pull goes one index further
ReachedNumberOfIndices_exceeded(index, value) == index > value[1]

\* `if current_option_index >= self.number_of_indices`
ReachedNumberOfIndices(index, value) == index >= value[1]

\* __del__: whether `self.chrome.quit()` is evaluated
DelCallsQuit == IF export_class = "ExportSiteSource" THEN TRUE ELSE chrome # None

\* _initialize_chrome
_initialize_chrome == IF chrome # None THEN chrome ELSE <<"webdriver.Chrome">>

\* where the overridden _download_file leaves its files: in the folder the
\* browser was configured with, or in a folder of its own below it
FileParents == {"download_folder_path", "subfolder"}

\* get_timestamped_folder, called by _initialize_chrome when it launches the
\* browser: `if not os.path.exists(...): os.makedirs(...)`
FolderAfterInitializeChrome == IF chrome # None THEN download_folder_exists ELSE TRUE

\* read_file and delete_parent_folder(file_path) on what _download_file
\* returned: shutil.rmtree(os.path.dirname(file_path)); nothing when it is None
FolderAfterDeleteParentFolder(file_path, exists) ==
    IF file_path # None /\ file_parent = "download_folder_path" THEN FALSE ELSE exists

ExportInit ==
    /\ export_class \in ExportSiteClasses
    /\ chrome = None
    /\ site_indices \in 0..MaxIndices
    /\ number_of_indices \in (IF IsIndexBased THEN {None, <<site_indices>>} ELSE {None})
    /\ seconds_between_downloads \in {0, 3}
    /\ export_pc = "idle"
    /\ n_pulls = 0
    /\ current_option_index = 0
    /\ download_log = <<>>
    /\ known_after_download = <<>>
    /\ files_produced = <<>>
    /\ export_yielded = <<>>
    /\ pauses = <<>>
    /\ n_chrome_created = 0
    /\ n_quits = 0
    /\ destroyed = FALSE
    /\ del_raised = "none"
    /\ file_parent \in FileParents
    /\ download_folder_exists = FALSE
    /\ folder_at_download = <<>>

ExportAtRest == export_pc \in {"idle", "done", "raised"} /\ ~destroyed

\* _query_data_source of the plain and the date-based class, consumed
ExportQueryDataSource ==
    /\ ~IsIndexBased
    /\ ExportAtRest
    /\ n_pulls < MaxPulls
    /\ chrome' = _initialize_chrome
    /\ n_chrome_created' = n_chrome_created + (IF chrome = None THEN 1 ELSE 0)
    /\ \E file_path \in FilesAt(0) :
           /\ files_produced' = <<file_path>>
           /\ export_yielded' = file_path
           /\ download_folder_exists' =
                  FolderAfterDeleteParentFolder(file_path, FolderAfterInitializeChrome)
    /\ folder_at_download' = <<FolderAfterInitializeChrome>>
    /\ download_log' = <<0>>
    /\ n_pulls' = n_pulls + 1
    /\ export_pc' = "done"
    /\ UNCHANGED <<export_class, site_indices, number_of_indices, seconds_between_downloads,
                   current_option_index, known_after_download, pauses, n_quits,
                   destroyed, del_raised, file_parent>>
    /\ UNCHANGED outside_export

\* IndexBasedExportSiteSource._query_data_source up to the loop
IndexQueryStarts ==
    /\ IsIndexBased
    /\ ExportAtRest
    /\ n_pulls < MaxPulls
    /\ chrome' = _initialize_chrome
    /\ n_chrome_created' = n_chrome_created + (IF chrome = None THEN 1 ELSE 0)
    /\ current_option_index' = 0
    /\ download_log' = <<>>
    /\ known_after_download' = <<>>
    /\ files_produced' = <<>>
    /\ export_yielded' = <<>>
    /\ pauses' = <<>>
    /\ download_folder_exists' = FolderAfterInitializeChrome
    /\ folder_at_download' = <<>>
    /\ n_pulls' = n_pulls + 1
    /\ export_pc' = "looping"
    /\ UNCHANGED <<export_class, site_indices, number_of_indices, seconds_between_downloads,
                   n_quits, destroyed, del_raised, file_parent>>
    /\ UNCHANGED outside_export

\* one turn of the loop up to `current_option_index += 1`: the download, the
\* records of the file, the index
IndexDownloads(file_path, number_after) ==
    /\ export_pc = "looping"
    /\ download_log' = Append(download_log, current_option_index)
    /\ files_produced' = Append(files_produced, file_path)
    /\ export_yielded' = export_yielded \o file_path
    /\ known_after_download' = Append(known_after_download, number_after # None)
    /\ current_option_index' = current_option_index + 1
    /\ folder_at_download' = Append(folder_at_download, download_folder_exists)
    /\ download_folder_exists' = FolderAfterDeleteParentFolder(file_path, download_folder_exists)
    /\ UNCHANGED <<export_class, site_indices, seconds_between_downloads, chrome,
                   n_chrome_created, n_pulls, n_quits, destroyed, del_raised, file_parent>>
    /\ UNCHANGED outside_export

\* a turn that ends in `raise Exception('self.number_of_indices should be set ...')`
IndexRaisesConfigurationError ==
    \E file_path \in FilesAt(current_option_index), number_after \in NumberOfIndicesAfterDownload :
        /\ IndexDownloads(file_path, number_after)
        /\ NumberOfIndicesIsUnknown(number_after)
        /\ number_of_indices' = number_after
        /\ export_pc' = "raised"
        /\ UNCHANGED pauses

\* a turn that ends in `self.number_of_indices = None; break`
IndexEndsPull ==
    \E file_path \in FilesAt(current_option_index), number_after \in NumberOfIndicesAfterDownload :
        /\ IndexDownloads(file_path, number_after)
        /\ ~NumberOfIndicesIsUnknown(number_after)
        /\ ReachedNumberOfIndices(current_option_index + 1, number_after)
        /\ number_of_indices' = None
        /\ export_pc' = "done"
        /\ UNCHANGED pauses

\* a turn that ends in `asyncio.sleep(self.seconds_between_downloads)`
IndexGoesOn ==
    \E file_path \in FilesAt(current_option_index), number_after \in NumberOfIndicesAfterDownload :
        /\ IndexDownloads(file_path, number_after)
        /\ ~NumberOfIndicesIsUnknown(number_after)
        /\ ~ReachedNumberOfIndices(current_option_index + 1, number_after)
        /\ number_of_indices' = number_after
        /\ pauses' = Append(pauses, SecondsPaused(asyncio_sleep(seconds_between_downloads)))
        /\ export_pc' = "looping"

\* __del__ of the three classes
ExportDel ==
    /\ ExportAtRest
    /\ destroyed' = TRUE
    /\ IF DelCallsQuit
       THEN IF chrome # None
            THEN n_quits' = n_quits + 1 /\ UNCHANGED del_raised
            ELSE del_raised' = "AttributeError" /\ UNCHANGED n_quits
       ELSE UNCHANGED <<n_quits, del_raised>>
    /\ UNCHANGED <<export_class, chrome, site_indices, number_of_indices,
                   seconds_between_downloads, export_pc, n_pulls, current_option_index,
                   download_log, known_after_download, files_produced, export_yielded,
                   pauses, n_chrome_created, file_parent, download_folder_exists,
                   folder_at_download>>
    /\ UNCHANGED outside_export

ExportNext ==
    \/ ExportQueryDataSource
    \/ IndexQueryStarts
    \/ IndexRaisesConfigurationError
    \/ IndexEndsPull
    \/ IndexGoesOn
    \/ ExportDel

ExportIdle ==
    /\ export_class = "ExportSiteSource"
    /\ chrome = None
    /\ site_indices = 0
    /\ number_of_indices = None
    /\ seconds_between_downloads = 3
    /\ export_pc = "idle"
    /\ n_pulls = 0
    /\ current_option_index = 0
    /\ download_log = <<>>
    /\ known_after_download = <<>>
    /\ files_produced = <<>>
    /\ export_yielded = <<>>
    /\ pauses = <<>>
    /\ n_chrome_created = 0
    /\ n_quits = 0
    /\ destroyed = FALSE
    /\ del_raised = "none"
    /\ file_parent = "download_folder_path"
    /\ download_folder_exists = FALSE
    /\ folder_at_download = <<>>

\* -------------------------------------------------- destinations/database/connection.py
\* DatabaseConnection objects are numbered in the order of their construction;
\* connection_objects[i] holds the fields of object i, whose engine is its own.
\* scoped_session objects are numbered likewise; scoped_sessions[s][t] is the
\* Session the registry of scoped_session s holds for thread t.
DbUris == {"db1", "db2"}
Threads == {1, 2}
Users == {"a", "b"}

NoSession == [state |-> "none", commits |-> 0, removals |-> 0]

\* DatabaseConnection.__init__ on the registry and the objects
Constructed(registry, objs, db_uri, autocommit) ==
    [registry |-> [registry EXCEPT ![db_uri] = <<Len(objs) + 1>>],
     objs |-> Append(objs, [db_uri |-> db_uri, autocommit |-> autocommit,
                           db_session |-> None, disposed |-> FALSE]),
     returned |-> Len(objs) + 1]

\* DatabaseConnection.get_db_connection
get_db_connection(registry, objs, db_uri, autocommit) ==
    IF registry[db_uri] # None
    THEN [registry |-> registry, objs |-> objs, returned |-> registry[db_uri][1]]
    ELSE Constructed(registry, objs, db_uri, autocommit)

\* the objects after connection_engine.dispose() on object i
Closed(objs, i) == [objs EXCEPT ![i].disposed = TRUE]

\* mutant: __exit__ commits whatever the configuration
ExitCommits_always(connection) == TRUE

\* __exit__: `if not self.db_connection_config.autocommit`
ExitCommits(connection) == ~connection.autocommit

\* scoped_session.commit() in a thread: the thread's Session, made on demand, commits
SessionCommitted(session) ==
    [session EXCEPT !.state = "open", !.commits = IF @ < 2 THEN @ + 1 ELSE @]

\* scoped_session.remove() in a thread: the thread's Session, if any, is closed and dropped
SessionRemoved(session) ==
    [session EXCEPT !.state = IF @ = "open" THEN "removed" ELSE @,
                    !.removals = IF @ < 2 THEN @ + 1 ELSE @]

ConnInit ==
    /\ connections = [db_uri \in DbUris |-> None]
    /\ connection_objects = <<>>
    /\ returned_for = [db_uri \in DbUris |-> {}]
    /\ engines_of = [db_uri \in DbUris |-> {}]
    /\ scoped_sessions = <<>>
    /\ user_thread \in {[a |-> 1, b |-> 1], [a |-> 1, b |-> 2]}
    /\ user_pc = [u \in Users |-> "outside"]
    /\ user_connection = [u \in Users |-> None]
    /\ user_session = [u \in Users |-> None]
    /\ replaced_while_open = [u \in Users |-> FALSE]
    /\ release_log = [u \in Users |-> <<>>]
    /\ scopes_open = <<>>

user_vars == <<user_thread, user_pc, user_connection, user_session, replaced_while_open,
               release_log, scopes_open>>

\* DatabaseConnection(config), called directly
ConnConstruct ==
    \E db_uri \in DbUris, autocommit \in BOOLEAN :
        /\ Len(connection_objects) < MaxConnections
        /\ LET made == Constructed(connections, connection_objects, db_uri, autocommit)
           IN  /\ connections' = made.registry
               /\ connection_objects' = made.objs
               /\ engines_of' = [engines_of EXCEPT ![db_uri] = @ \cup {made.returned}]
        /\ UNCHANGED <<returned_for, scoped_sessions>>
        /\ UNCHANGED user_vars
        /\ UNCHANGED outside_conn

\* DatabaseConnection.get_db_connection(config)
ConnGetDbConnection ==
    \E db_uri \in DbUris, autocommit \in BOOLEAN :
        /\ connections[db_uri] # None \/ Len(connection_objects) < MaxConnections
        /\ LET got == get_db_connection(connections, connection_objects, db_uri, autocommit)
           IN  /\ connections' = got.registry
               /\ connection_objects' = got.objs
               /\ returned_for' = [returned_for EXCEPT ![db_uri] = @ \cup {got.returned}]
               /\ engines_of' = [engines_of EXCEPT ![db_uri] = @ \cup {got.returned}]
        /\ UNCHANGED scoped_sessions
        /\ UNCHANGED user_vars
        /\ UNCHANGED outside_conn

\* DatabaseConnection.open_connections([config of db1, config of db2])
ConnOpenConnections ==
    /\ Len(connection_objects) + Cardinality({db_uri \in DbUris : connections[db_uri] = None})
           <= MaxConnections
    /\ LET first == get_db_connection(connections, connection_objects, "db1", FALSE)
           second == get_db_connection(first.registry, first.objs, "db2", FALSE)
       IN  /\ connections' = second.registry
           /\ connection_objects' = second.objs
           /\ returned_for' = [returned_for EXCEPT !["db1"] = @ \cup {first.returned},
                                                   !["db2"] = @ \cup {second.returned}]
           /\ engines_of' = [engines_of EXCEPT !["db1"] = @ \cup {first.returned},
                                               !["db2"] = @ \cup {second.returned}]
    /\ UNCHANGED scoped_sessions
    /\ UNCHANGED user_vars
    /\ UNCHANGED outside_conn

\* close() on one connection object
ConnClose ==
    \E i \in 1..Len(connection_objects) :
        /\ ~connection_objects[i].disposed
        /\ connection_objects' = Closed(connection_objects, i)
        /\ UNCHANGED <<connections, returned_for, engines_of, scoped_sessions>>
        /\ UNCHANGED user_vars
        /\ UNCHANGED outside_conn

\* DatabaseConnection.close_all_connections()
ConnCloseAllConnections ==
    /\ \E db_uri \in DbUris :
           connections[db_uri] # None /\ ~connection_objects[connections[db_uri][1]].disposed
    /\ connection_objects' =
           [i \in 1..Len(connection_objects) |->
               IF connections[connection_objects[i].db_uri] = <<i>>
               THEN Closed(connection_objects, i)[i] ELSE connection_objects[i]]
    /\ UNCHANGED <<connections, returned_for, engines_of, scoped_sessions>>
    /\ UNCHANGED user_vars
    /\ UNCHANGED outside_conn

\* DatabaseConnection.remove_connection(db_uri)
ConnRemoveConnection ==
    \E db_uri \in DbUris :
        /\ connections[db_uri] # None
        /\ connections' = [connections EXCEPT ![db_uri] = None]
        /\ returned_for' = [returned_for EXCEPT ![db_uri] = {}]
        /\ engines_of' = [engines_of EXCEPT ![db_uri] = {}]
        /\ UNCHANGED <<connection_objects, scoped_sessions>>
        /\ UNCHANGED user_vars
        /\ UNCHANGED outside_conn

\* DatabaseConnection.remove_all_connections()
ConnRemoveAllConnections ==
    /\ \E db_uri \in DbUris : connections[db_uri] # None
    /\ connections' = [db_uri \in DbUris |-> None]
    /\ returned_for' = [db_uri \in DbUris |-> {}]
    /\ engines_of' = [db_uri \in DbUris |-> {}]
    /\ UNCHANGED <<connection_objects, scoped_sessions>>
    /\ UNCHANGED user_vars
    /\ UNCHANGED outside_conn

\* a thread runs one `with` block at a time, the innermost it has entered
MayRun(u) ==
    \A v \in Users :
        (v # u /\ user_thread[v] = user_thread[u] /\ user_pc[v] = "inside") =>
            \E i, j \in 1..Len(scopes_open) :
                scopes_open[i] = v /\ scopes_open[j] = u /\ i < j

\* `with DatabaseConnection.get_db_connection(config) as db_connection:` and
\* `session = db_connection.db_session`, as in SlimDatabaseBaseModel.upsert
UserEnters ==
    \E u \in Users :
        /\ user_pc[u] = "outside"
        /\ \A v \in Users : user_thread[v] = user_thread[u] => user_pc[v] \in {"outside", "inside"}
        /\ connections["db1"] # None \/ Len(connection_objects) < MaxConnections
        /\ \E autocommit \in BOOLEAN :
               LET got == get_db_connection(connections, connection_objects, "db1", autocommit)
                   new_session == Len(scoped_sessions) + 1
               IN  /\ connections' = got.registry
                   /\ connection_objects' = [got.objs EXCEPT ![got.returned].db_session =
                                                                 <<new_session>>]
                   /\ returned_for' = [returned_for EXCEPT !["db1"] = @ \cup {got.returned}]
                   /\ engines_of' = [engines_of EXCEPT !["db1"] = @ \cup {got.returned}]
                   /\ user_connection' = [user_connection EXCEPT ![u] = <<got.returned>>]
                   /\ replaced_while_open' =
                          [v \in Users |->
                              IF v # u /\ user_pc[v] = "inside"
                                       /\ user_connection[v] = <<got.returned>>
                              THEN TRUE ELSE replaced_while_open[v]]
                   /\ scoped_sessions' = Append(scoped_sessions, [t \in Threads |-> NoSession])
                   /\ user_session' = [user_session EXCEPT ![u] = <<new_session>>]
        /\ user_pc' = [user_pc EXCEPT ![u] = "inside"]
        /\ scopes_open' = Append(scopes_open, u)
        /\ UNCHANGED <<user_thread, release_log>>
        /\ UNCHANGED outside_conn

\* inside the block: session.query(...), record.save(session)
UserWorks ==
    \E u \in Users :
        /\ user_pc[u] = "inside"
        /\ MayRun(u)
        /\ scoped_sessions[user_session[u][1]][user_thread[u]].state = "none"
        /\ scoped_sessions' = [scoped_sessions EXCEPT
                                   ![user_session[u][1]][user_thread[u]].state = "open"]
        /\ UNCHANGED <<connections, connection_objects, returned_for, engines_of>>
        /\ UNCHANGED user_vars
        /\ UNCHANGED outside_conn

\* __exit__(exc_type, exc_val, exc_tb) for user u: the arguments are not looked
\* at; an exception raised by commit() leaves __exit__ before remove()
ExitScope(u, body_raised, commit_raises) ==
    LET connection == connection_objects[user_connection[u][1]]
        db_session == connection.db_session[1]
        thread == user_thread[u]
        session == scoped_sessions[db_session][thread]
        commit_call == IF ExitCommits(connection)
                       THEN <<[call |-> "commit", db_session |-> db_session]>> ELSE <<>>
    IN  IF ExitCommits(connection) /\ commit_raises
        THEN /\ scoped_sessions' = [scoped_sessions EXCEPT ![db_session][thread].state = "open"]
             /\ release_log' = [release_log EXCEPT ![u] = commit_call]
             /\ user_pc' = [user_pc EXCEPT ![u] = "raised_in_commit"]
        ELSE /\ scoped_sessions' =
                    [scoped_sessions EXCEPT ![db_session][thread] =
                         SessionRemoved(IF ExitCommits(connection)
                                        THEN SessionCommitted(session) ELSE session)]
             /\ release_log' = [release_log EXCEPT ![u] =
                    Append(commit_call, [call |-> "remove", db_session |-> db_session])]
             /\ user_pc' = [user_pc EXCEPT ![u] = IF body_raised THEN "raised_in_body"
                                                  ELSE "left"]

\* the block ends normally and __exit__ returns
UserExits ==
    \E u \in Users :
        /\ user_pc[u] = "inside"
        /\ MayRun(u)
        /\ ExitScope(u, FALSE, FALSE)
        /\ scopes_open' = SelectSeq(scopes_open, LAMBDA v : v # u)
        /\ UNCHANGED <<connections, connection_objects, returned_for, engines_of>>
        /\ UNCHANGED <<user_thread, user_connection, user_session, replaced_while_open>>
        /\ UNCHANGED outside_conn

\* the block raises, or the commit of __exit__ does: the scope is left by an
\* exception (__exit__ returns None, so the body's exception goes on)
UserExitsByException ==
    \E u \in Users, body_raised, commit_raises \in BOOLEAN :
        /\ user_pc[u] = "inside"
        /\ MayRun(u)
        /\ body_raised \/ commit_raises
        /\ commit_raises => ExitCommits(connection_objects[user_connection[u][1]])
        /\ ExitScope(u, body_raised, commit_raises)
        /\ scopes_open' = SelectSeq(scopes_open, LAMBDA v : v # u)
        /\ UNCHANGED <<connections, connection_objects, returned_for, engines_of>>
        /\ UNCHANGED <<user_thread, user_connection, user_session, replaced_while_open>>
        /\ UNCHANGED outside_conn

ConnNext ==
    \/ ConnConstruct
    \/ ConnGetDbConnection
    \/ ConnOpenConnections
    \/ ConnClose
    \/ ConnCloseAllConnections
    \/ ConnRemoveConnection
    \/ ConnRemoveAllConnections
    \/ UserEnters
    \/ UserWorks
    \/ UserExits

\* the `with` blocks alone, ended normally or by an exception
ScopeNext ==
    \/ UserEnters
    \/ UserWorks
    \/ UserExits
    \/ UserExitsByException

ConnIdle ==
    /\ connections = [db_uri \in DbUris |-> None]
    /\ connection_objects = <<>>
    /\ returned_for = [db_uri \in DbUris |-> {}]
    /\ engines_of = [db_uri \in DbUris |-> {}]
    /\ scoped_sessions = <<>>
    /\ user_thread = [a |-> 1, b |-> 1]
    /\ user_pc = [u \in Users |-> "outside"]
    /\ user_connection = [u \in Users |-> None]
    /\ user_session = [u \in Users |-> None]
    /\ replaced_while_open = [u \in Users |-> FALSE]
    /\ release_log = [u \in Users |-> <<>>]
    /\ scopes_open = <<>>


\* ------------------------------------ BaseController._wait_for_interval_to_elapse
\* Times are in milliseconds; instants are counted from start_time_in_utc.
MaxTimeUsed == 1      \* ms between start_time_in_utc and the datetime.now() of the call
MaxSleepLag == 1      \* ms a time.sleep(1) call takes beyond its second

\* values of timedelta(milliseconds=interval_in_milliseconds)
IntervalsInMilliseconds == {0, 400, 1500, 2000, 2500, 2600}

\* what _get_closest_next_timestamp returns, as an instant after start_time_in_utc
NextTimestamps == {0, 1400, 2000}

\* round(seconds) of a non-negative number of seconds given in ms: Python 3
\* rounds to the nearest integer and a half to the even one
round(milliseconds) ==
    LET whole == milliseconds \div 1000
        rest == milliseconds % 1000
    IN  IF rest < 500 THEN whole
        ELSE IF rest > 500 THEN whole + 1
        ELSE IF whole % 2 = 0 THEN whole ELSE whole + 1

\* mutant: the class interval is kept when there is one
IntervalToWait_interval_first(cls_interval, next_timestamp) ==
    IF cls_interval # None THEN cls_interval ELSE next_timestamp

\* the local `interval` after `if next_timestamp is not None:
\* interval = next_timestamp - start_time_in_utc`
IntervalToWait(cls_interval, next_timestamp) ==
    IF next_timestamp # None THEN next_timestamp ELSE cls_interval

\* `if not isinstance(cls._interval, timedelta) and not isinstance(next_timestamp, datetime): return`
ReturnsWithoutWaiting(cls_interval, next_timestamp) ==
    cls_interval = None /\ next_timestamp = None

\* range(round(seconds_left_off_interval)) under `if seconds_left_off_interval > 0`
NumberOfSleeps(seconds_left_off_interval) ==
    IF seconds_left_off_interval > 0 THEN round(seconds_left_off_interval) ELSE 0

WaitInit ==
    /\ class_interval \in {None} \cup {<<ms>> : ms \in IntervalsInMilliseconds}
    /\ closest_next_timestamp \in {None} \cup {<<ms>> : ms \in NextTimestamps}
    /\ wait_pc = "not_called"
    /\ interval = None
    /\ time_used_up_so_far = None
    /\ sleeps_left = 0
    /\ sleeps_done = 0
    /\ elapsed = 0

\* the call up to the loop: the target, the time used so far, the number of sleeps
WaitIsCalled ==
    /\ wait_pc = "not_called"
    /\ IF ReturnsWithoutWaiting(class_interval, closest_next_timestamp)
       THEN /\ wait_pc' = "returned"
            /\ UNCHANGED <<interval, time_used_up_so_far, sleeps_left, elapsed>>
       ELSE \E used \in 0..MaxTimeUsed :
               LET target == IntervalToWait(class_interval, closest_next_timestamp)
               IN  /\ interval' = target
                   /\ time_used_up_so_far' = <<used>>
                   /\ sleeps_left' = NumberOfSleeps(target[1] - used)
                   /\ elapsed' = used
                   /\ wait_pc' = "sleeping"
    /\ UNCHANGED <<class_interval, closest_next_timestamp, sleeps_done>>
    /\ UNCHANGED outside_wait

\* `time.sleep(1)`
WaitSleeps ==
    /\ wait_pc = "sleeping"
    /\ sleeps_left > 0
    /\ \E lag \in 0..MaxSleepLag : elapsed' = elapsed + 1000 + lag
    /\ sleeps_left' = sleeps_left - 1
    /\ sleeps_done' = sleeps_done + 1
    /\ UNCHANGED <<class_interval, closest_next_timestamp, wait_pc, interval,
                   time_used_up_so_far>>
    /\ UNCHANGED outside_wait

\* the loop is over, or was not entered
WaitReturns ==
    /\ wait_pc = "sleeping"
    /\ sleeps_left = 0
    /\ wait_pc' = "returned"
    /\ UNCHANGED <<class_interval, closest_next_timestamp, interval, time_used_up_so_far,
                   sleeps_left, sleeps_done, elapsed>>
    /\ UNCHANGED outside_wait

WaitNext ==
    \/ WaitIsCalled
    \/ WaitSleeps
    \/ WaitReturns

WaitIdle ==
    /\ class_interval = None
    /\ closest_next_timestamp = None
    /\ wait_pc = "not_called"
    /\ interval = None
    /\ time_used_up_so_far = None
    /\ sleeps_left = 0
    /\ sleeps_done = 0
    /\ elapsed = 0


\* ------------------------- class-level state of Controller classes
\* (controllers/base/__init__.py, date_based.py, quarter_based.py)
\* A class attribute is read through the class and then its base classes;
\* `cls.x = v` in a classmethod writes the dictionary of the class it was
\* called on. class_dict[c][x] is <<>> when x is not in c's own dictionary
\* and <<v>> when it is there with value v.
MaxClassCalls == 3    \* calls made on the Controller classes
MaxQueries == 2       \* _query_source calls per class

\* Parent and Other derive from the library's base controller, Child from Parent
ControllerClasses == {"Parent", "Child", "Other"}
BasesOf(c) == IF c = "Child" THEN <<"Parent">> ELSE <<>>

NotInDict == <<>>
InDict(value) == <<value>>

\* the attributes as the library's base classes define them; `_source` is
\* only annotated there (base/__init__.py:26), so it is no attribute at all
LibraryDict ==
    [interval_in_milliseconds |-> InDict(None), start |-> InDict(None), end |-> InDict(None),
     _interval |-> InDict(None), _last_timestamp |-> InDict(None), _source |-> NotInDict]

\* getattr(c, attribute), following the bases; NotInDict stands for AttributeError
RECURSIVE Lookup(_, _, _)
Lookup(dicts, c, attribute) ==
    IF dicts[c][attribute] # NotInDict THEN dicts[c][attribute]
    ELSE IF BasesOf(c) # <<>> THEN Lookup(dicts, BasesOf(c)[1], attribute)
    ELSE LibraryDict[attribute]

\* hasattr(cls, '_source')
HasSource(dicts, c) == Lookup(dicts, c, "_source") # NotInDict

\* what destination_model_class.get_last_saved_timestamp() returns: None, the
\* one timestamp of the last record, or a list when the model has several
SavedTimestamps ==
    {None, <<"date", 2020, 3, 9>>, <<"datetime", 2015, 10, 6>>, <<"list">>}

\* isinstance(value, date); a datetime is a date
IsInstanceOfDate(value) == value # None /\ value[1] \in {"date", "datetime"}

\* utils/dates.py
get_quarter_from_month(month) == ((month - 1) \div 3) + 1
convert_date_to_quarter_year_tuple(date_value) ==
    <<get_quarter_from_month(date_value[3]), date_value[2]>>

\* the window start the subclass's _update_last_timestamp derives
StartFromLastTimestamp(kind, timestamp) ==
    IF kind = "date" THEN timestamp ELSE convert_date_to_quarter_year_tuple(timestamp)

\* _update_interval
_update_interval(dicts, c) ==
    LET option == Lookup(dicts, c, "interval_in_milliseconds")[1]
    IN  IF option # None THEN [dicts EXCEPT ![c]._interval = InDict(option)] ELSE dicts

\* mutant: the start is set from whatever the destination returns
_update_last_timestamp_unchecked(dicts, c, kind, saved) ==
    [dicts EXCEPT ![c]._last_timestamp = InDict(saved),
                  ![c].start = InDict(IF saved = None \/ saved = <<"list">> THEN saved
                                      ELSE StartFromLastTimestamp(kind, saved))]

\* _update_last_timestamp of the date-based and the quarter-based controller
_update_last_timestamp(dicts, c, kind, saved) ==
    LET updated == [dicts EXCEPT ![c]._last_timestamp = InDict(saved)]
    IN  IF IsInstanceOfDate(saved)
        THEN [updated EXCEPT ![c].start = InDict(StartFromLastTimestamp(kind, saved))]
        ELSE updated

\* _initialize, destination_model_class.get_last_saved_timestamp() returning saved
_initialize(dicts, c, kind, saved) ==
    _update_last_timestamp(_update_interval(dicts, c), c, kind, saved)

\* pydantic's validation of an Optional[date] field: a datetime becomes its date
AsDateField(value) ==
    IF value # None /\ value[1] = "datetime"
    THEN <<"date", value[2], value[3], value[4]>> ELSE value

\* source_class(attributes=destination_model_class.get_attributes(), **kwargs)
NewSource(c, start, end) ==
    [source_class |-> c, attributes |-> c,
     start |-> IF controller_kind = "date" THEN AsDateField(start) ELSE start, end |-> end,
     batches |-> 0, windows |-> <<>>]

\* mutant: the source is built anew on every call
_update_source_always(dicts, sources, c, start, end) ==
    [dicts |-> [dicts EXCEPT ![c]._source = InDict(Len(sources) + 1)],
     sources |-> Append(sources, NewSource(c, start, end))]

\* _update_source(start..., end...)
_update_source(dicts, sources, c, start, end) ==
    IF ~HasSource(dicts, c)
    THEN [dicts |-> [dicts EXCEPT ![c]._source = InDict(Len(sources) + 1)],
          sources |-> Append(sources, NewSource(c, start, end))]
    ELSE [dicts |-> dicts, sources |-> sources]

\* the start of the window a source's get() computes: its start bound moved
\* by the batches of its completed pulls, or, with no start bound, one batch
\* before its end bound or today
WindowStart(source) ==
    IF source.start # None THEN [from |-> source.start, batches |-> source.batches]
    ELSE [from |-> <<"end or today">>, batches |-> -1]

\* source.get() consumed: the window, and the start bound advanced by a
\* batch when the pull was queried to its end
SourceAfterGet(source, completed) ==
    [source EXCEPT !.windows = Append(@, WindowStart(source)),
                   !.start = IF completed /\ source.start = None
                             THEN <<"end or today">> ELSE @,
                   !.batches = IF ~completed THEN @
                               ELSE IF source.start = None THEN 0 ELSE @ + 1]

SourcesBuiltBy(c) == {i \in 1..Len(class_sources) : class_sources[i].source_class = c}

ClassesInit ==
    /\ controller_kind \in {"date", "quarter"}
    /\ \E parent_option \in {NotInDict, InDict(<<2000>>)},
          child_option \in {NotInDict, InDict(None)},
          parent_start \in {NotInDict, InDict(IF controller_kind = "date"
                                              THEN <<"date", 2019, 1, 1>> ELSE <<1, 2019>>)} :
          class_dict =
             [c \in ControllerClasses |->
                 [interval_in_milliseconds |-> IF c = "Parent" THEN parent_option
                                               ELSE IF c = "Child" THEN child_option
                                               ELSE InDict(<<1000>>),
                  start |-> IF c = "Parent" THEN parent_start ELSE NotInDict,
                  end |-> NotInDict,
                  _interval |-> NotInDict,
                  _last_timestamp |-> NotInDict,
                  _source |-> NotInDict]]
    /\ class_sources = <<>>
    /\ acting = "none"
    /\ called = [op |-> "none"]
    /\ n_class_calls = 0
    /\ n_queries_of = [c \in ControllerClasses |-> 0]

\* cls._initialize(), the first statement of extract()
ClassInitialize ==
    \E c \in ControllerClasses, saved \in SavedTimestamps :
        /\ n_class_calls < MaxClassCalls
        /\ class_dict' = _initialize(class_dict, c, controller_kind, saved)
        /\ acting' = c
        /\ called' = [op |-> "_initialize", saved |-> saved]
        /\ n_class_calls' = n_class_calls + 1
        /\ UNCHANGED <<controller_kind, class_sources, n_queries_of>>
        /\ UNCHANGED outside_classes

\* the start a caller of _update_source may pass
StartSeeds == {None, IF controller_kind = "date" THEN <<"date", 1990, 4, 7>> ELSE <<2, 1990>>}

\* cls._update_source(start..., end...) called with keyword seeds of the caller's
ClassUpdateSource ==
    \E c \in ControllerClasses, start \in StartSeeds :
        LET updated == _update_source(class_dict, class_sources, c, start, None)
        IN  /\ n_class_calls < MaxClassCalls
            /\ class_dict' = updated.dicts
            /\ class_sources' = updated.sources
            /\ acting' = c
            /\ called' = [op |-> "_update_source", start |-> start]
            /\ n_class_calls' = n_class_calls + 1
            /\ UNCHANGED <<controller_kind, n_queries_of>>
            /\ UNCHANGED outside_classes

\* cls._query_source() of the date-based and the quarter-based controller,
\* and the returned get() consumed: one extract cycle
ClassQuerySource ==
    \E c \in ControllerClasses, completed \in BOOLEAN :
        LET updated == _update_source(class_dict, class_sources, c,
                                      Lookup(class_dict, c, "start")[1],
                                      Lookup(class_dict, c, "end")[1])
            source == Lookup(updated.dicts, c, "_source")[1]
        IN  /\ n_class_calls < MaxClassCalls
            /\ n_queries_of[c] < MaxQueries
            /\ class_dict' = updated.dicts
            /\ class_sources' = [updated.sources EXCEPT
                                    ![source] = SourceAfterGet(@, completed)]
            /\ acting' = c
            /\ called' = [op |-> "_query_source", completed |-> completed]
            /\ n_class_calls' = n_class_calls + 1
            /\ n_queries_of' = [n_queries_of EXCEPT ![c] = @ + 1]
            /\ UNCHANGED controller_kind
            /\ UNCHANGED outside_classes

ClassesNext ==
    \/ ClassInitialize
    \/ ClassUpdateSource
    \/ ClassQuerySource

ClassesIdle ==
    /\ controller_kind = "date"
    /\ class_dict = [c \in ControllerClasses |->
                        [interval_in_milliseconds |-> NotInDict, start |-> NotInDict,
                         end |-> NotInDict, _interval |-> NotInDict,
                         _last_timestamp |-> NotInDict, _source |-> NotInDict]]
    /\ class_sources = <<>>
    /\ acting = "none"
    /\ called = [op |-> "none"]
    /\ n_class_calls = 0
    /\ n_queries_of = [c \in ControllerClasses |-> 0]


\* ------------------------------------------------ the transformer library
\* A record is a dict, kept as the sequence of its <<key, value>> pairs in
\* insertion order. A key is a sequence of pieces of text. A value is None,
\* a string <<"str", ...>> ('' is <<"str">>), or a date string
\* <<"str", separator, n1, n2, n3>> such as '03/09/2020'.
EmptyString == <<"str">>
IsString(value) == value # None /\ value[1] = "str"

\* datetime patterns: the separator and the order of the directives
MonthDayYear == <<"/", "m", "d", "Y">>       \* '%m/%d/%Y'
DayMonthYear == <<"/", "d", "m", "Y">>       \* '%d/%m/%Y'
YearMonthDay == <<"-", "Y", "m", "d">>       \* '%Y-%m-%d'

\* whether strptime's directive accepts the digits
DirectiveMatches(directive, number) ==
    CASE directive = "m" -> number \in 1..12
      [] directive = "d" -> number \in 1..31
      [] directive = "Y" -> number \in 1000..9999

\* datetime.strptime(datetime_value, old)
strptime(datetime_value, old) ==
    IF ~IsString(datetime_value) THEN Raises("TypeError")
    ELSE IF /\ Len(datetime_value) = 5
            /\ datetime_value[2] = old[1]
            /\ \A i \in 1..3 : DirectiveMatches(old[i + 1], datetime_value[i + 2])
    THEN Returns([i \in {"m", "d", "Y"} |->
                     datetime_value[2 + CHOOSE j \in 1..3 : old[j + 1] = i]])
    ELSE Raises("ValueError")

\* datetime.strftime(new)
strftime(parsed, new) == <<"str", new[1], parsed[new[2]], parsed[new[3]], parsed[new[4]]>>

\* utils/dates.py: change_datetime_format
change_datetime_format(datetime_value, old, new) ==
    LET parsed == strptime(datetime_value, old)
    IN  IF parsed.exception # "none" THEN parsed ELSE Returns(strftime(parsed.value, new))

\* dict.get(key, default) and `d[key] = value` on a sequence of pairs
DictHas(d, key) == \E i \in 1..Len(d) : d[i][1] = key
DictGet(d, key, default) ==
    IF DictHas(d, key) THEN d[CHOOSE i \in 1..Len(d) : d[i][1] = key][2] ELSE default
DictSet(d, key, value) ==
    IF DictHas(d, key)
    THEN [i \in 1..Len(d) |-> IF d[i][1] = key THEN <<key, value>> ELSE d[i]]
    ELSE Append(d, <<key, value>>)

\* two dicts are equal when they hold the same items, in whatever order
ItemsOf(d) == {d[i] : i \in 1..Len(d)}

\* a dict comprehension: the first n of the items it produces, put into a
\* dict one after the other
RECURSIVE DictFromItems(_, _)
DictFromItems(items, n) ==
    IF n = 0 THEN <<>>
    ELSE DictSet(DictFromItems(items, n - 1), items[n][1], items[n][2])

\* utils/data.py
remove_empty_string_values(value, replacement) ==
    IF value = EmptyString THEN replacement ELSE value

replace_keys_with_aliases(alias_map, data) ==
    DictFromItems([i \in 1..Len(data) |->
                      <<DictGet(alias_map, data[i][1], data[i][1]), data[i][2]>>],
                  Len(data))

\* str.replace(substring, replacement) for a substring of one piece
RECURSIVE StrReplace(_, _, _)
StrReplace(string, substring, replacement) ==
    IF string = <<>> THEN <<>>
    ELSE (IF Head(string) = substring THEN replacement ELSE <<Head(string)>>)
         \o StrReplace(Tail(string), substring, replacement)

RECURSIVE replace_substrings_from(_, _, _)
replace_substrings_from(substring_replacement_map, index, new_string) ==
    IF index > Len(substring_replacement_map) THEN new_string
    ELSE replace_substrings_from(substring_replacement_map, index + 1,
                                 StrReplace(new_string, substring_replacement_map[index][1],
                                            substring_replacement_map[index][2]))

replace_substrings(substring_replacement_map, string) ==
    replace_substrings_from(substring_replacement_map, 1, string)

\* MultipleFormatDatetimeTransformer.__format_datetime
RECURSIVE __format_datetime(_, _, _, _)
__format_datetime(datetime_value, source_datetime_formats, index, destination_datetime_format) ==
    IF index > Len(source_datetime_formats) THEN Returns(datetime_value)
    ELSE LET changed == change_datetime_format(datetime_value, source_datetime_formats[index],
                                               destination_datetime_format)
         IN  IF changed.exception = "ValueError"
             THEN __format_datetime(datetime_value, source_datetime_formats, index + 1,
                                    destination_datetime_format)
             ELSE changed

\* <Transformer>.run(data) for a transformer class with the given attributes
run(cls, data) ==
    CASE cls.transformer = "BaseTransformer" -> Returns(data)
      [] cls.transformer = "DatetimeTransformer" ->
            LET date_value == DictGet(data, cls.datetime_field, None)
                changed == change_datetime_format(date_value, cls.source_datetime_formats[1],
                                                  cls.destination_datetime_format)
            IN  IF date_value = None THEN Returns(data)
                ELSE IF changed.exception # "none" THEN changed
                ELSE Returns(DictSet(data, cls.datetime_field, changed.value))
      [] cls.transformer = "MultipleFormatDatetimeTransformer" ->
            LET datetime_value == DictGet(data, cls.datetime_field, None)
                changed == __format_datetime(datetime_value, cls.source_datetime_formats, 1,
                                             cls.destination_datetime_format)
            IN  IF datetime_value = None THEN Returns(data)
                ELSE IF changed.exception # "none" THEN changed
                ELSE Returns(DictSet(data, cls.datetime_field, changed.value))
      [] cls.transformer = "EmptyStringTransformer" ->
            Returns(DictFromItems(
                [i \in 1..Len(data) |->
                    <<data[i][1], remove_empty_string_values(data[i][2], cls.replacement)>>],
                Len(data)))
      [] cls.transformer = "FieldNameAliasTransformer" ->
            Returns(replace_keys_with_aliases(cls._alias_map, data))
      [] cls.transformer = "FieldNameCleanerTransformer" ->
            Returns(DictFromItems(
                [i \in 1..Len(data) |->
                    <<replace_substrings(cls.substring_replacement_map, data[i][1]),
                      data[i][2]>>],
                Len(data)))
      [] cls.transformer = "FieldValueAliasTransformer" ->
            LET field_value == DictGet(data, cls._field_name, None)
            IN  Returns(DictSet(data, cls._field_name,
                                DictGet(cls._alias_map, field_value, field_value)))

\* the class attributes a transformer class can be given
NoAttributes ==
    [transformer |-> "BaseTransformer", datetime_field |-> <<"Date">>,
     source_datetime_formats |-> <<MonthDayYear>>, destination_datetime_format |-> YearMonthDay,
     replacement |-> None, _alias_map |-> <<>>, substring_replacement_map |-> <<>>,
     _field_name |-> <<"a">>]

TransformerConfigurations ==
    {NoAttributes}
    \cup {[NoAttributes EXCEPT !.transformer = "DatetimeTransformer",
                               !.source_datetime_formats = <<old>>,
                               !.destination_datetime_format = new] :
             old \in {MonthDayYear, DayMonthYear, YearMonthDay}, new \in {YearMonthDay, MonthDayYear}}
    \cup {[NoAttributes EXCEPT !.transformer = "MultipleFormatDatetimeTransformer",
                               !.source_datetime_formats = formats,
                               !.destination_datetime_format = new] :
             formats \in {<<MonthDayYear>>, <<DayMonthYear>>, <<YearMonthDay, MonthDayYear>>},
             new \in {YearMonthDay, MonthDayYear}}
    \cup {[NoAttributes EXCEPT !.transformer = "EmptyStringTransformer",
                               !.replacement = replacement] :
             replacement \in {None, EmptyString, <<"str", "x">>}}
    \cup {[NoAttributes EXCEPT !.transformer = "FieldNameAliasTransformer",
                               !._alias_map = alias_map] :
             alias_map \in {<<>>, << << <<"a">>, <<"b">> >> >>,
                            << << <<"a">>, <<"b">> >>, << <<"b">>, <<"Date">> >> >>}}
    \cup {[NoAttributes EXCEPT !.transformer = "FieldNameCleanerTransformer",
                               !.substring_replacement_map = map] :
             map \in {<<>>, << <<".", <<>> >> >>, << <<".", <<"_">> >>, <<"_", <<>> >> >>,
                      << <<"a", <<"a", ".">> >> >>}}
    \cup {[NoAttributes EXCEPT !.transformer = "FieldValueAliasTransformer",
                               !._alias_map = alias_map] :
             alias_map \in {<<>>, << << <<"str", "x">>, <<"str", "y">> >> >>,
                            << << <<"str", "x">>, <<"str", "y">> >>,
                               << <<"str", "y">>, EmptyString >> >>}}

FieldNames == {<<"Date">>, <<"a">>, <<"b">>, <<"a", ".">>}
FieldValues == {None, EmptyString, <<"str", "x">>, <<"str", "y">>,
                <<"str", "/", 3, 9, 2020>>, <<"str", "-", 2020, 3, 9>>}

\* the records of one and of two fields
GivenRecords ==
    {<< <<key, value>> >> : key \in FieldNames, value \in FieldValues}
    \cup {<< <<names[1], value>>, <<names[2], <<"str", "x">> >> >> :
             names \in {pair \in FieldNames \X FieldNames : pair[1] # pair[2]},
             value \in FieldValues}

TransformersInit ==
    /\ transformer_class \in TransformerConfigurations
    /\ given_record \in GivenRecords
    /\ run_pc = "not_run"
    /\ first_run = Returns(<<>>)
    /\ second_run = Returns(<<>>)

\* T.run(r)
TransformerRuns ==
    /\ run_pc = "not_run"
    /\ first_run' = run(transformer_class, given_record)
    /\ run_pc' = "run_once"
    /\ UNCHANGED <<transformer_class, given_record, second_run>>
    /\ UNCHANGED outside_transformers

\* T.run(T.run(r)), the first run having returned
TransformerRunsAgain ==
    /\ run_pc = "run_once"
    /\ first_run.exception = "none"
    /\ second_run' = run(transformer_class, first_run.value)
    /\ run_pc' = "run_twice"
    /\ UNCHANGED <<transformer_class, given_record, first_run>>
    /\ UNCHANGED outside_transformers

TransformersNext ==
    \/ TransformerRuns
    \/ TransformerRunsAgain

TransformersIdle ==
    /\ transformer_class = NoAttributes
    /\ given_record = <<>>
    /\ run_pc = "not_run"
    /\ first_run = Returns(<<>>)
    /\ second_run = Returns(<<>>)

SourceNext ==
    \/ DateGet
    \/ QuarterGet
    \/ DelegateYields
    \/ DelegateRaises
    \/ ConsumerStops
    \/ DateGetCompletes
    \/ QuarterGetCompletes
    \/ ClockTicks

\* the state of a component no operation of which is running
SourceIdle ==
    /\ source_class = "DateBasedBaseSource"
    /\ start_date = None
    /\ end_date = None
    /\ default_batch_size_in_days = 7
    /\ start_quarter_and_year = None
    /\ end_quarter_and_year = None
    /\ default_batch_size_in_quarters = 1
    /\ today = 0
    /\ current_quarter_and_year = <<4, BaseYear>>
    /\ get_pc = "idle"
    /\ window = <<>>
    /\ prev_window = <<>>
    /\ clock_at_get = <<>>
    /\ entry = <<>>
    /\ calls = <<>>
    /\ delegate_out = <<>>
    /\ yielded = <<>>
    /\ n_gets = 0

ControllerIdle ==
    /\ interval_in_milliseconds = None
    /\ cron_jobs = <<>>
    /\ awaiting = None
    /\ stage_chain = <<>>
    /\ _interval = None
    /\ _source = "unset"
    /\ should_wait_before_yielding = FALSE
    /\ extract_pc = "not_started"
    /\ extract_left_by = "none"
    /\ n_cycles = 0
    /\ n_queries = 0
    /\ cycle_wait = "not_called"
    /\ extract_out = <<>>
    /\ stage = "none"
    /\ stage_in = None
    /\ stage_items = <<>>
    /\ raised = "none"
    /\ propagated = "none"
    /\ logged = <<>>
    /\ notified = <<>>
    /\ pending = <<>>
    /\ upsert_calls = <<>>

\* each specification runs one component; the others stay as constructed
InitSource == SourceInit /\ UpsertInit /\ ControllerIdle /\ RestIdle /\ CronIdle /\ DatesIdle /\ ExportIdle /\ ConnIdle /\ WaitIdle /\ ClassesIdle /\ TransformersIdle
InitUpsert == UpsertInit /\ SourceIdle /\ ControllerIdle /\ RestIdle /\ CronIdle /\ DatesIdle /\ ExportIdle /\ ConnIdle /\ WaitIdle /\ ClassesIdle /\ TransformersIdle
InitController == ControllerInit /\ SourceIdle /\ UpsertInit /\ RestIdle /\ CronIdle /\ DatesIdle /\ ExportIdle /\ ConnIdle /\ WaitIdle /\ ClassesIdle /\ TransformersIdle
InitRest == RestInit /\ SourceIdle /\ UpsertInit /\ ControllerIdle /\ CronIdle /\ DatesIdle /\ ExportIdle /\ ConnIdle /\ WaitIdle /\ ClassesIdle /\ TransformersIdle
InitCron == CronInit /\ SourceIdle /\ UpsertInit /\ ControllerIdle /\ RestIdle /\ DatesIdle /\ ExportIdle /\ ConnIdle /\ WaitIdle /\ ClassesIdle /\ TransformersIdle
InitDates == DatesInit /\ SourceIdle /\ UpsertInit /\ ControllerIdle /\ CronIdle /\ RestIdle /\ ExportIdle /\ ConnIdle /\ WaitIdle /\ ClassesIdle /\ TransformersIdle
InitExport == ExportInit /\ SourceIdle /\ UpsertInit /\ ControllerIdle /\ CronIdle /\ DatesIdle /\ RestIdle /\ ConnIdle /\ WaitIdle /\ ClassesIdle /\ TransformersIdle
InitConn == ConnInit /\ SourceIdle /\ UpsertInit /\ ControllerIdle /\ CronIdle /\ DatesIdle /\ ExportIdle /\ RestIdle /\ WaitIdle /\ ClassesIdle /\ TransformersIdle
InitWait == WaitInit /\ SourceIdle /\ UpsertInit /\ ControllerIdle /\ ConnIdle /\ CronIdle /\ DatesIdle /\ ExportIdle /\ RestIdle /\ ClassesIdle /\ TransformersIdle
InitClasses == ClassesInit /\ SourceIdle /\ UpsertInit /\ ControllerIdle /\ ConnIdle /\ CronIdle /\ DatesIdle /\ ExportIdle /\ RestIdle /\ WaitIdle /\ TransformersIdle
InitTransformers == TransformersInit /\ SourceIdle /\ UpsertInit /\ ControllerIdle /\ ClassesIdle /\ ConnIdle /\ CronIdle /\ DatesIdle /\ ExportIdle /\ RestIdle /\ WaitIdle

SpecSource == InitSource /\ [][SourceNext]_vars

SpecUpsert == InitUpsert /\ [][UpsertNext]_vars

SpecController == InitController /\ [][ControllerNext]_vars

SpecRest == InitRest /\ [][RestNext]_vars

SpecCron == InitCron /\ [][CronNext]_vars

SpecDates == InitDates /\ [][DatesNext]_vars

SpecExport == InitExport /\ [][ExportNext]_vars

SpecConn == InitConn /\ [][ConnNext]_vars

SpecScope == InitConn /\ [][ScopeNext]_vars

SpecWait == InitWait /\ [][WaitNext]_vars

SpecClasses == InitClasses /\ [][ClassesNext]_vars

SpecTransformers == InitTransformers /\ [][TransformersNext]_vars

\* ------------------------------------------------- claims on the sources
\* quarters since year 1 quarter 1, to compare (quarter, year) tuples
Linear(quarter_year_tuple) == 4 * (quarter_year_tuple[2] - 1) + (quarter_year_tuple[1] - 1)

BothDatesSetAtEntry ==
    /\ IsDateSource
    /\ entry # <<>>
    /\ IsDate(entry[1])
    /\ IsDate(entry[2])
    /\ entry[2][1] >= entry[1][1]

\* C1: a DateBasedBaseSource with start_date = D and end_date = E, E >= D:
\* one get() consumed to exhaustion has called _query_data_source exactly
\* once, with (D, E), has yielded exactly the delegate's records in order,
\* and leaves start_date = D + default_batch_size_in_days and end_date = E.
C1_DateGetQueriesOnceAndAdvances ==
    (BothDatesSetAtEntry /\ get_pc = "done") =>
        /\ calls = << <<entry[1][1], entry[2][1]>> >>
        /\ yielded = delegate_out
        /\ start_date = <<entry[1][1] + default_batch_size_in_days>>
        /\ end_date = entry[2]

C1_Witness ==
    /\ BothDatesSetAtEntry
    /\ get_pc = "done"
    /\ Len(delegate_out) = 2
    /\ delegate_out[1] # delegate_out[2]
    /\ default_batch_size_in_days = 2

\* C2: when the computed end date is earlier than the computed start date,
\* get() has ended without yielding a record and without calling
\* _query_data_source, and start_date and end_date are as they were.
C2_EmptyDateWindowShortCircuits ==
    (IsDateSource /\ window # <<>> /\ window[2] < window[1]) =>
        /\ get_pc = "done"
        /\ calls = <<>>
        /\ yielded = <<>>
        /\ delegate_out = <<>>
        /\ <<start_date, end_date>> = entry

C2_Witness ==
    /\ IsDateSource
    /\ window # <<>>
    /\ window[2] < window[1]
    /\ get_pc = "done"
    /\ n_gets >= 2
    /\ prev_window[2] >= prev_window[1]

\* C3: with a batch size >= 1 and a clock that never moves backwards, the
\* start bound and the end bound a get() computes are each >= those the
\* previous get() on the same instance computed.
C3_WindowNeverMovesBackwards ==
    (prev_window # <<>>) =>
        IF IsDateSource
        THEN (default_batch_size_in_days >= 1) =>
                 /\ window[1] >= prev_window[1]
                 /\ window[2] >= prev_window[2]
        ELSE (default_batch_size_in_quarters >= 1) =>
                 /\ Linear(window[1]) >= Linear(prev_window[1])
                 /\ Linear(window[2]) >= Linear(prev_window[2])

C3_Witness ==
    /\ IsQuarterSource
    /\ default_batch_size_in_quarters >= 1
    /\ prev_window # <<>>
    /\ Linear(window[1]) > Linear(prev_window[1])
    /\ Linear(window[2]) > Linear(prev_window[2])
    /\ window[1][2] > prev_window[1][2]

\* C4: when _query_data_source raises partway, or the consumer stops before
\* get() is exhausted, the start bound (start_date, start_quarter_and_year)
\* is what it was when get() was called, so that a get() made at the same
\* clock value computes the same window again.
C4_AbortedPullKeepsStart ==
    (get_pc \in {"raised", "closed"}) =>
        IF IsDateSource
        THEN /\ <<start_date, end_date>> = entry
             /\ (<<today>> = clock_at_get) =>
                    <<_get_next_start_date(0, 0), _get_next_end_date(0, 0)>> = window
        ELSE /\ <<start_quarter_and_year, end_quarter_and_year>> = entry
             /\ (current_quarter_and_year = clock_at_get) =>
                    <<_get_next_start_quarter_and_year(0, 0),
                      _get_next_end_quarter_and_year(0, 0)>> = window

C4_Witness ==
    /\ get_pc = "closed"
    /\ IsDateSource
    /\ Len(yielded) = 2
    /\ IsDate(start_date)
    /\ n_gets >= 2
    /\ window = prev_window

\* ------------------------------------------------------ claims on upsert
RowsOfKey(key) == {row \in table : KeyOf(row) = key}

\* C5: after any sequence of upserts whose records all hold every
\* primary-key column, the table holds exactly one row for each primary key
\* upserted and none for any other, and every non-key column the latest
\* record of a key holds has that record's value in the row.
C5_OneRowPerKeyWithLatestValues ==
    all_with_key =>
        \A key \in Keys :
            IF last_upsert[key] = <<>>
            THEN RowsOfKey(key) = {}
            ELSE /\ Cardinality(RowsOfKey(key)) = 1
                 /\ \A row \in RowsOfKey(key) :
                        \A column \in NonKeyColumns \cap DOMAIN last_upsert[key] :
                            row[column] = last_upsert[key][column]

C5_Witness ==
    /\ all_with_key
    /\ n_upserts = 3
    /\ upsert_outcome = "updated"
    /\ Cardinality(table) = 2
    /\ \E row \in table : KeyOf(row) = KeyOf(upsert_data) /\ row.Capacity = "c2"
    /\ "Capacity" \in DOMAIN upsert_data

HasSomeButNotEveryKeyColumn(data) ==
    /\ \E column \in primary_key_columns : column \in DOMAIN data
    /\ ~HasEveryKeyColumn(data)

\* C6: upsert enters the primary-key lookup only when the record holds every
\* primary-key column; a record with some but not all of the columns of a
\* composite key skips the lookup, and a new row is constructed and saved.
C6_PartialKeySkipsLookup ==
    (n_upserts >= 1) =>
        /\ lookup_attempted => HasEveryKeyColumn(upsert_data)
        /\ HasSomeButNotEveryKeyColumn(upsert_data) =>
               (~lookup_attempted /\ upsert_outcome \in {"inserted", "IntegrityError"})

\* ------------------------------------------- claims on the REST API source
FirstStatusAsksForAuthentication ==
    /\ first_response # None
    /\ first_response[1].status_code \in {400, 401, 403}

\* C11: in one _query_data_source call whose first GET returns 400, 401 or
\* 403, _authenticate is called exactly once and exactly one more GET is
\* made, with headers computed after the authentication; the second response
\* alone decides the outcome (its records if it is ok, otherwise a
\* RequestError with its status code), and there is never a third GET.
C11_OneReauthenticationAndRetry ==
    /\ Len(requests_log) <= 2
    /\ (FirstStatusAsksForAuthentication /\ rest_pc \in {"decided", "done", "raised"}) =>
           /\ n_authenticate = 1
           /\ Len(requests_log) = 2
           /\ requests_log[2] = default_headers
           /\ authenticate_adds \subseteq requests_log[2]
    /\ (FirstStatusAsksForAuthentication /\ rest_pc = "done") =>
           /\ response[1].status_code < 400
           /\ rest_yielded = response[1].json.v
           /\ rest_raised = None
    /\ (FirstStatusAsksForAuthentication /\ rest_pc = "raised") =>
           /\ response[1].status_code >= 400
           /\ rest_raised[1] = response[1].status_code
           /\ rest_yielded = <<>>

C11_Witness ==
    /\ first_response # None
    /\ first_response[1].status_code = 401
    /\ rest_pc = "done"
    /\ authenticate_adds = {"Authorization"}
    /\ requests_log = << {}, {"Authorization"} >>
    /\ Len(rest_yielded) = 2
    /\ first_response[1].json # response[1].json

\* C12: when the first GET returns a status other than 400, 401 and 403,
\* exactly one GET is made and _authenticate is never called; if the status
\* is not 2xx, a RequestError with the status code and the response body is
\* raised and no record is yielded.
C12_OtherStatusIsFinal ==
    (/\ first_response # None
     /\ first_response[1].status_code \notin {400, 401, 403}
     /\ rest_pc \in {"done", "raised"}) =>
        /\ Len(requests_log) = 1
        /\ n_authenticate = 0
        /\ (first_response[1].status_code \notin 200..299) =>
               /\ rest_pc = "raised"
               /\ rest_raised = <<first_response[1].status_code, first_response[1].text>>
               /\ rest_yielded = <<>>

\* -------------------------------------------------- claims on the stages
\* C7: a fatal exception (TestingTimeoutError) raised in a stage, by the
\* source in extract, a transformer in transform or upsert in load, leaves
\* the stage as it is, is neither logged nor notified, and once it has left
\* extract(), extract() queries the source no more.
C7_FatalExceptionPropagates ==
    /\ [](raised = "TestingTimeoutError" =>
              /\ propagated = "TestingTimeoutError"
              /\ logged = <<>>
              /\ notified = <<>>)
    /\ [][extract_left_by = "TestingTimeoutError" =>
              /\ n_queries' = n_queries
              /\ extract_out' = extract_out
              /\ extract_pc' = "raised"
              /\ extract_left_by' = "TestingTimeoutError"]_vars

C7_Witness ==
    /\ extract_left_by = "TestingTimeoutError"
    /\ n_queries >= 2
    /\ stage = "load"
    /\ raised = "TestingTimeoutError"
    /\ stage_chain = <<"Tag">>
    /\ upsert_calls # <<>>

\* the source's get() has raised an exception that is not fatal to extract()
SourceRaisedNonFatal ==
    /\ stage = "extract"
    /\ _source = "built"
    /\ raised # "none"
    /\ ~IsInstance(raised, _fatal_extraction_exceptions)

\* C8: a non-fatal exception of the source never leaves extract(): a known
\* one is logged and not notified, any other is notified exactly once with
\* the subject '[Unknown] <source name> Extraction'; either way the cycle
\* yields no more records and the loop goes on to its next iteration.
C8_NonFatalSourceExceptionIsContained ==
    SourceRaisedNonFatal =>
        /\ propagated = "none"
        /\ extract_pc = "loop"
        /\ IF IsInstance(raised, _known_extraction_exceptions)
           THEN /\ logged = << <<"Extraction", raised>> >>
                /\ notified = <<>>
           ELSE notified = << [subject |-> Subject("Extraction"), exception |-> raised] >>

\* C9: a RequestError of a DateBasedRestAPISource raised during extraction
\* is sent to the notifier with the subject '[Unknown] <source name>
\* Extraction', does not leave extract(), and the loop continues.
C9_RequestErrorIsNotified ==
    (stage = "extract" /\ raised = "RequestError") =>
        /\ notified = << [subject |-> Subject("Extraction"), exception |-> "RequestError"] >>
        /\ propagated = "none"
        /\ extract_left_by = "none"
        /\ extract_pc = "loop"

\* C10: when a transformer raises a known or an unknown exception for a
\* record, transform yields no item for it, no partly transformed record and
\* no None, so nothing of the record reaches load and upsert; a known and
\* an unknown failure leave the same items.
C10_FailedTransformYieldsNothing ==
    (/\ stage = "transform"
     /\ stage_in # None
     /\ raised # "none"
     /\ ~IsInstance(raised, _fatal_transformation_exceptions)) =>
        /\ stage_items = <<>>
        /\ pending = <<>>

\* the results of one transformer on each element in turn, lists flattened
RECURSIVE OnEachElement(_, _)
OnEachElement(transformer, elements) ==
    IF elements = <<>> THEN <<>>
    ELSE LET result == Run(transformer, Head(elements))
         IN  (IF result.is_list THEN result.v ELSE <<result.v>>)
                 \o OnEachElement(transformer, Tail(elements))

\* the transformers of a chain applied to the elements, first declared first
RECURSIVE InDeclaredOrder(_, _)
InDeclaredOrder(chain, elements) ==
    IF chain = <<>> THEN elements
    ELSE InDeclaredOrder(Tail(chain), OnEachElement(Head(chain), elements))

\* C13: transform(record) applies transformer_classes in declared order;
\* after a transformer has returned a list every later transformer is applied
\* to each element, list results flattened one level, and the final
\* elements are yielded one by one in order; with [A, B], A returning two
\* records, exactly two records are yielded, B's result on each of A's.
C13_TransformersInDeclaredOrder ==
    (stage = "transform" /\ stage_in # None /\ raised = "none") =>
        /\ stage_items = InDeclaredOrder(stage_chain, <<stage_in>>)
        /\ (stage_chain = <<"Split", "Tag">>) =>
               /\ Len(stage_items) = 2
               /\ \A i \in 1..2 :
                      stage_items[i] = Run("Tag", Run("Split", stage_in).v[i]).v

C13_Witness ==
    /\ stage = "transform"
    /\ stage_in = <<"r1">>
    /\ raised = "none"
    /\ stage_chain = <<"Split", "Tag">>
    /\ stage_items = << <<"r1", "a", "T">>, <<"r1", "b", "T">> >>

\* C14: transform(None) yields exactly one item, None, whatever
\* transformer_classes is, the empty list included.
C14_AbsentInputYieldsOnePlaceholder ==
    (stage = "transform" /\ stage_in = None) => stage_items = <<None>>

\* ------------------------------------------------ claims on scheduling
NoSchedule == interval_in_milliseconds = None /\ cron_jobs = <<>>

PureInterval == interval_in_milliseconds # None /\ cron_jobs = <<>>

\* C16: with an interval and no cron schedule, the first iteration of
\* extract() queries the source without waiting and every later iteration
\* waits for the interval before it queries, also after an iteration whose
\* pull raised a known or an unknown exception.
C16_IntervalWaitFromSecondIteration ==
    PureInterval =>
        /\ (n_cycles = 1) => cycle_wait = "not_called"
        /\ (n_cycles >= 2) => cycle_wait = "for_the_interval"

CronCallIsOver == cron_pc \in {"returned", "raised"}

\* CronType(second=S), called at a whole-second instant
OnlySecondGiven ==
    /\ cron_given.second # None
    /\ \A field \in {"day_of_week", "year", "month", "day", "hour", "minute"} :
           cron_given[field] = None
    /\ utc_now.microsecond = 0

C19_CompletesWithNoValueOrUpcomingTimestamp ==
    /\ cron_raised = "none"
    /\ cron_pc # "raised"
    /\ cron_returned # None => NotBefore(cron_returned[1], utc_now)

\* the step the first given field calls for
StepOfFirstGivenField(candidate) ==
    IF cron_given.year # None THEN candidate
    ELSE IF cron_given.day_of_week # None THEN PlusDays(candidate, 7)
    ELSE IF cron_given.month # None THEN [candidate EXCEPT !.year = candidate.year + 1]
    ELSE IF cron_given.day # None
    THEN (IF candidate.month = 12
          THEN [candidate EXCEPT !.year = candidate.year + 1, !.month = 1]
          ELSE [candidate EXCEPT !.month = candidate.month + 1])
    ELSE IF cron_given.hour # None THEN PlusDays(candidate, 1)
    ELSE IF cron_given.minute # None THEN PlusHour(candidate)
    ELSE IF cron_given.second # None THEN PlusMinute(candidate)
    ELSE candidate

\* C20: a candidate that is not before now is returned unchanged; an earlier
\* one is advanced by exactly the step of the first given field, in the order
\* year (no advance, no value returned), day_of_week, month, day, hour, minute,
\* second.
C20_CandidateStandsOrAdvancesOneStep ==
    (CronCallIsOver /\ generated_timestamp # None) =>
        IF NotBefore(generated_timestamp[1], utc_now)
        THEN cron_returned = generated_timestamp
        ELSE /\ cron_pc = "returned"
             /\ next_utc_timestamp = <<StepOfFirstGivenField(generated_timestamp[1])>>
             /\ cron_given.year # None => cron_returned = None

\* the fields of the CronType have had their defaults
CronFieldsHaveDefaults == cron_pc # "constructed"

SomeGiven(given_fields) == \E field \in given_fields : cron_given[field] # None

\* the value the defaulting rule gives a field that was not given
StartOfPeriod(field) ==
    CASE field = "month"  -> IF SomeGiven({"year"}) THEN <<1>> ELSE None
      [] field = "day"    -> IF SomeGiven({"year", "month"}) THEN <<1>> ELSE None
      [] field = "hour"   -> IF SomeGiven({"day_of_week", "year", "month", "day"})
                             THEN <<0>> ELSE None
      [] field = "minute" -> IF SomeGiven({"day_of_week", "year", "month", "day", "hour"})
                             THEN <<0>> ELSE None
      [] field = "second" -> IF SomeGiven({"day_of_week", "year", "month", "day", "hour",
                                           "minute"})
                             THEN <<0>> ELSE None
      [] OTHER -> None

\* C21: defaulting keeps every given field and gives an unset field its start
\* of period exactly when a coarser field is given: month January and day 1
\* after a year, day 1 after a month, midnight after any date field, minute 0
\* and second 0 after an hour, second 0 after a minute; day_of_week alone
\* leaves the date fields unset and with nothing given nothing is defaulted.
C21_DefaultsFillOnlyUnsetFinerFields ==
    CronFieldsHaveDefaults =>
        \A field \in DOMAIN cron_given :
            cron_fields[field] = IF cron_given[field] # None THEN cron_given[field]
                                 ELSE StartOfPeriod(field)

\* CronType(year=2021, minute=46) has month January, day 1, midnight and second 0
C21_Witness ==
    /\ cron_pc = "defaulted"
    /\ cron_given = [day_of_week |-> None, year |-> <<2021>>, month |-> None, day |-> None,
                     hour |-> None, minute |-> <<46>>, second |-> None]
    /\ cron_fields = [day_of_week |-> None, year |-> <<2021>>, month |-> <<1>>,
                      day |-> <<1>>, hour |-> <<0>>, minute |-> <<46>>, second |-> <<0>>]

\* -------------------------------------------------- claims on utils/dates.py

\* quarters since year 1, quarter 1
QuartersSinceYear1(quarter_year_tuple) ==
    4 * (quarter_year_tuple[2] - 1) + (quarter_year_tuple[1] - 1)

\* C22: update_quarter_year_tuple returns a quarter in 1..4 and a year such
\* that the quarters since year 1 quarter 1 have moved by exactly the net delta.
C22_QuarterArithmeticIsExact ==
    updated_quarter_year_tuple # None =>
        /\ updated_quarter_year_tuple[1][1] \in 1..4
        /\ QuartersSinceYear1(updated_quarter_year_tuple[1])
               = QuartersSinceYear1(given_quarter_year_tuple)
                     + given_increment - given_decrement

\* -------------------------------------------------- more claims on the sources

\* C23: the window of a pull of a DateBasedBaseSource is [start_date, end_date]
\* when both are set, [start_date, start_date + batch] when only start_date is
\* set, [end_date - batch, end_date] when only end_date is set and
\* [today - batch, today] when neither is set, batch being
\* default_batch_size_in_days.
C23_DateWindowFromTheBoundsThatAreSet ==
    (IsDateSource /\ window # <<>>) =>
        LET start == entry[1]
            end == entry[2]
            batch == default_batch_size_in_days
            now == clock_at_get[1]
        IN  window =
                IF start # None /\ end # None THEN <<start[1], end[1]>>
                ELSE IF start # None THEN <<start[1], start[1] + batch>>
                ELSE IF end # None THEN <<end[1] - batch, end[1]>>
                ELSE <<now - batch, now>>

\* a pull with only start_date set, on a later day, the batch being two days
C23_Witness ==
    /\ IsDateSource
    /\ window # <<>>
    /\ entry[1] # None /\ entry[2] = None
    /\ default_batch_size_in_days = 2
    /\ clock_at_get = <<1>>
    /\ window = <<entry[1][1], entry[1][1] + 2>>
    /\ get_pc = "querying"

\* -------------------------------------------------- claims on the export-site sources

\* <<0, 1, ..., n - 1>>
IndicesBelow(n) == [i \in 1..n |-> i - 1]

\* the records of the files, file after file
RECURSIVE RecordsOf(_)
RecordsOf(files) == IF files = <<>> THEN <<>> ELSE Head(files) \o RecordsOf(Tail(files))

IndexPullIsOver == IsIndexBased /\ export_pc = "done"

\* C24 (as stated): a fully consumed pull with number_of_indices established
\* as n has called _download_file once for each index 0..n-1 in increasing
\* order and for no other, has yielded the records of the files in that order
\* and has reset number_of_indices to None.
C24_DownloadsEachIndexBelowN ==
    IndexPullIsOver =>
        /\ download_log = IndicesBelow(site_indices)
        /\ export_yielded = RecordsOf(files_produced)
        /\ number_of_indices = None

\* C24 (amended): as above for n >= 1; with n = 0 the pull has still called
\* _download_file once, for index 0, the bound being tested after the download.
C24_DownloadsIndexZeroAndEachIndexBelowN ==
    IndexPullIsOver =>
        /\ download_log = IndicesBelow(IF site_indices >= 1 THEN site_indices ELSE 1)
        /\ Len(files_produced) = Len(download_log)
        /\ export_yielded = RecordsOf(files_produced)
        /\ number_of_indices = None

\* a pull over three files, the second one absent, has ended
C24_Witness ==
    /\ IndexPullIsOver
    /\ site_indices = 3
    /\ download_log = <<0, 1, 2>>
    /\ files_produced[2] = None
    /\ Len(export_yielded) = 3
    /\ number_of_indices = None

\* C25: between two consecutive download attempts of one pull the source
\* pauses for seconds_between_downloads.
C25_PausesBetweenDownloads ==
    IsIndexBased =>
        /\ Len(download_log) >= 1 => Len(pauses) >= Len(download_log) - 1
        /\ \A i \in 1..Len(pauses) : pauses[i] = seconds_between_downloads

\* C26: in any pull, when number_of_indices is unknown right after a download
\* attempt the configuration error is raised and that attempt is the last.
C26_UnknownBoundRaisesAndStops ==
    IsIndexBased =>
        /\ \A i \in 1..Len(known_after_download) :
               ~known_after_download[i] =>
                   /\ i = Len(download_log)
                   /\ export_pc = "raised"
        /\ export_pc = "raised" =>
               /\ number_of_indices = None
               /\ known_after_download # <<>>
               /\ ~known_after_download[Len(known_after_download)]

\* the second pull, after a first one that ended, has raised at its first download
C26_Witness ==
    /\ IsIndexBased
    /\ n_pulls = 2
    /\ export_pc = "raised"
    /\ download_log = <<0>>
    /\ site_indices = 2

\* C27: destroying an export-site source quits the browser exactly once when
\* one was created and does nothing, and raises nothing, when none was.
C27_DelQuitsCreatedBrowserOnly ==
    destroyed =>
        /\ del_raised = "none"
        /\ n_quits = (IF chrome # None THEN 1 ELSE 0)

\* -------------------------------------------------- claims on the database connection

\* C28: for each db_uri not explicitly removed from the registry, every
\* get_db_connection call has returned the same connection object and no
\* second connection object (engine) for that db_uri exists.
C28_OneConnectionPerUri ==
    \A db_uri \in DbUris :
        /\ Cardinality(returned_for[db_uri]) <= 1
        /\ Cardinality(engines_of[db_uri]) <= 1

\* the calls __exit__ made for a user, by name
ReleaseCalls(u) == [i \in 1..Len(release_log[u]) |-> release_log[u][i].call]

\* C29: leaving a scope commits exactly once when autocommit is false and not
\* at all when it is true, and removes the scoped session afterwards.
C29_ExitCommitsOnceUnlessAutocommit ==
    \A u \in Users :
        user_pc[u] = "left" =>
            ReleaseCalls(u) =
                IF connection_objects[user_connection[u][1]].autocommit
                THEN <<"remove">> ELSE <<"commit", "remove">>

\* one user has left a scope on an autocommit connection, the other on a
\* connection without autocommit
C29_Witness ==
    /\ user_pc = [a |-> "left", b |-> "left"]
    /\ connection_objects[user_connection["a"][1]].autocommit
    /\ ~connection_objects[user_connection["b"][1]].autocommit
    /\ ReleaseCalls("a") = <<"remove">>
    /\ ReleaseCalls("b") = <<"commit", "remove">>

\* C30: with overlapping scopes on the connection of one db_uri, each user
\* releases its own unit of work, and no acquisition replaces the session of a
\* scope that is still open.
C30_OverlappingScopesKeepTheirSessions ==
    \A u \in Users :
        /\ ~replaced_while_open[u]
        /\ \A i \in 1..Len(release_log[u]) : release_log[u][i].db_session = user_session[u][1]
        /\ user_pc[u] = "left" =>
               scoped_sessions[user_session[u][1]][user_thread[u]].state # "open"


\* the except clause the stage's last exception reached
ClauseReached ==
    IF raised = "none" THEN "none"
    ELSE IF stage = "extract"
    THEN ExceptClause(raised, _fatal_extraction_exceptions, _known_extraction_exceptions)
    ELSE IF stage = "transform"
    THEN ExceptClause(raised, _fatal_transformation_exceptions,
                      _known_transformation_exceptions)
    ELSE IF stage = "load"
    THEN ExceptClause(raised, _fatal_loading_exceptions, _known_loading_exceptions)
    ELSE "none"

\* C37: the known- and the unknown-exception handlers of extract, transform
\* and load never raise themselves: an exception that reaches one of them
\* does not leave the stage, and no other exception does in its place, also
\* when the Controller's source has not been constructed.
C37_HandlersNeverRaise ==
    ClauseReached \in {"known", "unknown"} => propagated = "none"


\* C38: for one DateBasedBaseSource instance with a batch size of at least
\* one day and `today` constant, a non-empty pull that follows a fully
\* consumed non-empty pull queries a window whose start is less than or
\* equal to the end of the window queried before it, whichever of
\* start_date and end_date were set at the beginning.
C38_NoGapBetweenSuccessiveWindows ==
    [][(/\ IsDateSource
        /\ default_batch_size_in_days >= 1
        /\ get_pc = "done"
        /\ calls # <<>>
        /\ clock_at_get = <<today>>
        /\ get_pc' = "querying")
       => calls'[1][1] <= calls[1][2]]_vars

C38_Witness ==
    /\ IsDateSource
    /\ default_batch_size_in_days >= 1
    /\ get_pc = "querying"
    /\ n_gets >= 3
    /\ clock_at_get = <<today>>
    /\ prev_window # <<>>
    /\ prev_window[1] <= prev_window[2]
    /\ window[1] = prev_window[1] + default_batch_size_in_days
    /\ window[1] <= prev_window[2]


\* a user's scope is over, left normally or by an exception
ScopeIsOver(u) == user_pc[u] \in {"left", "raised_in_body", "raised_in_commit"}

\* C40: leaving a DatabaseConnection scope always removes the scoped
\* session: remove() is the last call of __exit__ also when the body of the
\* scope raised and when the commit performed on exit itself raises.
C40_ExitAlwaysRemovesTheSession ==
    \A u \in Users :
        ScopeIsOver(u) =>
            /\ ReleaseCalls(u) # <<>>
            /\ ReleaseCalls(u)[Len(ReleaseCalls(u))] = "remove"

\* C39: at every call to _download_file on an export-site source whose files
\* are downloaded into download_folder_path, that folder still exists, also
\* in pulls made after an earlier pull's file was parsed and its parent
\* folder deleted, the browser being launched only once per source.
C39_DownloadFolderExistsAtEveryDownload ==
    file_parent = "download_folder_path" =>
        \A i \in 1..Len(folder_at_download) : folder_at_download[i]


C36_WaitLastsIntervalToOneSecondMore ==
    (/\ wait_pc = "returned"
     /\ closest_next_timestamp = None
     /\ class_interval # None)
    => /\ elapsed >= class_interval[1]
       /\ elapsed <= class_interval[1] + 1000


\* what a class observes of its scheduling state
Observed(c) ==
    <<Lookup(class_dict, c, "_interval"), Lookup(class_dict, c, "_last_timestamp"),
      Lookup(class_dict, c, "_source")>>

\* C32: Controller scheduling state is private to each Controller class: for
\* any two distinct classes, one of which may subclass the other, no call on
\* one of them changes the _interval, _last_timestamp or _source the other
\* observes, and the source a class has queried is one it built itself.
C32_SchedulingStateIsPrivateToEachClass ==
    [][/\ \A c \in ControllerClasses : c # acting' => Observed(c)' = Observed(c)
       /\ \A c \in ControllerClasses :
              n_queries_of'[c] > 0 =>
                  class_sources'[Lookup(class_dict', c, "_source")[1]].source_class = c]_vars


QuarterAndYearOf(saved) ==
    IF saved = <<"datetime", 2015, 10, 6>> THEN <<4, 2015>> ELSE <<1, 2020>>

\* C34: during _initialize, when the destination's last saved timestamp is a
\* date, the date-based controller sets start_date to it and the
\* quarter-based controller sets start_quarter_and_year to its (quarter,
\* year) pair, and otherwise the configured start stays; the first window
\* queried by a class whose source is not built yet begins at that start.
C34_StartIsSeededFromLastSavedTimestamp ==
    [][LET c == acting'
           start == Lookup(class_dict, c, "start")
       IN  /\ called'.op = "_initialize" =>
                  Lookup(class_dict', c, "start") =
                      IF called'.saved \in {<<"date", 2020, 3, 9>>, <<"datetime", 2015, 10, 6>>}
                      THEN InDict(IF controller_kind = "date" THEN called'.saved
                                  ELSE QuarterAndYearOf(called'.saved))
                      ELSE start
           /\ (/\ called'.op = "_query_source"
               /\ ~HasSource(class_dict, c)
               /\ start # InDict(None))
              => class_sources'[Len(class_sources')].windows =
                     << [from |-> IF controller_kind = "date" /\ start[1][1] = "datetime"
                                  THEN <<"date", start[1][2], start[1][3], start[1][4]>>
                                  ELSE start[1],
                         batches |-> 0] >>]_vars

\* a quarter-based class was initialized with a last record of 2015-10-06
\* and its first pull began at (4, 2015)
C34_Witness ==
    /\ controller_kind = "quarter"
    /\ acting = "Other"
    /\ called.op = "_query_source"
    /\ n_queries_of["Other"] = 1
    /\ class_dict["Other"].start = InDict(<<4, 2015>>)
    /\ class_dict["Other"]._last_timestamp = InDict(<<"datetime", 2015, 10, 6>>)
    /\ class_sources[class_dict["Other"]._source[1]].windows =
           << [from |-> <<4, 2015>>, batches |-> 0] >>


\* C31: every library transformer is idempotent: for each transformer T,
\* each configuration of T and each record r, T.run(T.run(r)) succeeds and
\* equals T.run(r).
C31_TransformersAreIdempotent ==
    run_pc = "run_twice" =>
        /\ second_run.exception = "none"
        /\ ItemsOf(second_run.value) = ItemsOf(first_run.value)

====
